---- MODULE Spec2Model ----
(***************************************************************************)
(* A model of the Sortle interpreter (graue/sortle-js): the rewrite engine *)
(* of lib/runtime.js (runProgram), its stack-machine evaluator, the        *)
(* coercions sortleString / sortleNumber and the regex engine of           *)
(* lib/regex.js.                                                           *)
(*                                                                         *)
(* Representation.  A JavaScript string is a sequence of one-character     *)
(* strings, <<"a", "b">> for 'ab'; strings are compared by code unit, the  *)
(* order Alphabet lists.  A JavaScript value or a term of an expression    *)
(* is a record [type, num, str]: type "number" (num a natural number),     *)
(* "Infinity" and "NaN" (the two non-finite numbers the arithmetic of the  *)
(* evaluator can produce from naturals), "string" (str) and "operator"     *)
(* (str holds the operator symbol).  An entry of the program state is a    *)
(* record [name, terms] for the tuple [name, terms] of the source.         *)
(***************************************************************************)
EXTENDS Integers, Sequences, FiniteSets, TLC

\* ------------------------------------------------------------------ bounds

\* The longest program (number of expressions) Init draws.
MaxProgLen == 3

\* Names longer than this are not explored further (a program may grow its
\* names without bound by concatenation).
MaxNameLen == 8

\* The largest number literal of the evaluator's input space (SpecEval).
MaxLit == 4

\* ----------------------------------------------------------------- strings

\* The characters of the model in increasing UTF-16 code-unit order.
Alphabet ==
    << "!", "(", ")", "-", ".", "0", "1", "2", "3", "4", "5", "6", "7", "8", "9",
       "@", "I", "N", "[", "]", "a", "b", "c", "d", "f", "i", "n", "t", "y" >>

Char == { Alphabet[i] : i \in 1..Len(Alphabet) }

\* The code-unit rank of a character.
Ord(c) == CHOOSE i \in 1..Len(Alphabet) : Alphabet[i] = c

Min(a, b) == IF a <= b THEN a ELSE b

\* s < t for JavaScript strings: at the first position where they differ the
\* code unit of s is smaller, or s is a proper prefix of t.
StrLess(s, t) ==
    \E k \in 0..Min(Len(s), Len(t)) :
        /\ \A i \in 1..k : s[i] = t[i]
        /\ \/ (k = Len(s) /\ k < Len(t))
           \/ (k < Len(s) /\ k < Len(t) /\ Ord(s[k + 1]) < Ord(t[k + 1]))

\* s >= t and s > t for JavaScript strings.
StrGeq(s, t) == ~StrLess(s, t)

StrGreater(s, t) == StrLess(t, s)

\* ------------------------------------------------------------------ values

Num(n) == [type |-> "number", num |-> n, str |-> << >>]

Infinity == [type |-> "Infinity", num |-> 0, str |-> << >>]

NaN == [type |-> "NaN", num |-> 0, str |-> << >>]

Str(s) == [type |-> "string", num |-> 0, str |-> s]

Op(o) == [type |-> "operator", num |-> 0, str |-> <<o>>]

\* The eight operators the parser accepts.
OPERATORS == {"+", "*", "/", "%", "^", "~", "?", "$"}

\* typeof v === 'number' / 'string'
IsNumber(v) == v.type \in {"number", "Infinity", "NaN"}

IsString(v) == v.type = "string"

Digits == <<"0", "1", "2", "3", "4", "5", "6", "7", "8", "9">>

IsDigit(c) == \E i \in 1..10 : Digits[i] = c

DigitValue(c) == (CHOOSE i \in 1..10 : Digits[i] = c) - 1

\* String(n) for a natural number n: its decimal digits, no leading zero.
RECURSIVE DecimalString(_)
DecimalString(n) ==
    IF n < 10 THEN << Digits[n + 1] >>
    ELSE Append(DecimalString(n \div 10), Digits[(n % 10) + 1])

\* String(input) for a number: a negative one carries a leading "-".
JsString(v) ==
    CASE v.type = "Infinity" -> <<"I", "n", "f", "i", "n", "i", "t", "y">>
      [] v.type = "NaN" -> <<"N", "a", "N">>
      [] v.num < 0 -> <<"-">> \o DecimalString(0 - v.num)
      [] OTHER -> DecimalString(v.num)

\* sortleString with the test for 0 left out: String(0) is "0".
sortleStringNoZeroRule(input) ==
    IF IsString(input) THEN input.str ELSE JsString(input)

sortleString(input) ==
    IF IsString(input) THEN input.str
    ELSE IF input = Num(0) THEN << >>
    ELSE JsString(input)

\* The longest prefix of s made of digits: s.match(/^[0-9]*/)[0].
RECURSIVE DigitPrefix(_)
DigitPrefix(s) ==
    IF s = << >> \/ ~IsDigit(Head(s)) THEN << >>
    ELSE <<Head(s)>> \o DigitPrefix(Tail(s))

\* Number(d) for a non-empty string of digits d.
RECURSIVE ParseDecimal(_)
ParseDecimal(d) ==
    IF d = << >> THEN 0
    ELSE 10 * ParseDecimal(SubSeq(d, 1, Len(d) - 1)) + DigitValue(d[Len(d)])

\* A conversion that reads a leading minus sign.
sortleNumberSigned(input) ==
    IF IsNumber(input) THEN input
    ELSE IF input.str # << >> /\ Head(input.str) = "-"
    THEN Num(0 - ParseDecimal(<<"0">> \o DigitPrefix(Tail(input.str))))
    ELSE Num(ParseDecimal(<<"0">> \o DigitPrefix(input.str)))

sortleNumber(input) ==
    IF IsNumber(input) THEN input
    ELSE Num(ParseDecimal(<<"0">> \o DigitPrefix(input.str)))

\* ------------------------------------------------- JavaScript arithmetic
\* The operands are numbers sortleNumber returns: naturals, Infinity or NaN.

JsAdd(a, b) ==
    IF a.type = "NaN" \/ b.type = "NaN" THEN NaN
    ELSE IF a.type = "Infinity" \/ b.type = "Infinity" THEN Infinity
    ELSE Num(a.num + b.num)

JsMul(a, b) ==
    IF a.type = "NaN" \/ b.type = "NaN" THEN NaN
    ELSE IF a.type = "Infinity" \/ b.type = "Infinity"
         THEN (IF a = Num(0) \/ b = Num(0) THEN NaN ELSE Infinity)
    ELSE Num(a.num * b.num)

\* Math.floor(a / b)
JsFloorDiv(a, b) ==
    IF a.type = "NaN" \/ b.type = "NaN" THEN NaN
    ELSE IF a.type = "Infinity"
         THEN (IF b.type = "Infinity" THEN NaN ELSE Infinity)
    ELSE IF b.type = "Infinity" THEN Num(0)
    ELSE IF b.num = 0 THEN (IF a.num = 0 THEN NaN ELSE Infinity)
    ELSE Num(a.num \div b.num)

\* a % b
JsMod(a, b) ==
    IF a.type = "NaN" \/ b.type = "NaN" THEN NaN
    ELSE IF a.type = "Infinity" THEN NaN
    ELSE IF b.type = "Infinity" THEN a
    ELSE IF b.num = 0 THEN NaN
    ELSE Num(a.num % b.num)

\* ------------------------------------------------------- lib/regex.js
\* The outcome of a call that may throw or fail to return:
\*   kind "value" (val), "throw" (error: the error's class and message) or
\*   "hang" (the call never returns).

SortleRegexError(message) == [name |-> "SortleRegexError", message |-> message]

SortleRuntimeError(message) == [name |-> "SortleRuntimeError", message |-> message]

NoError == [name |-> "", message |-> ""]

\* An element of a compiled regex.  optional and canRepeat are undefined
\* (falsy) in the source until a modifier sets them: FALSE here.
Element(chars, capturing, grouped) ==
    [chars |-> chars, optional |-> FALSE, canRepeat |-> FALSE,
     capturing |-> capturing, grouped |-> grouped]

\* The compiler's locals before the first character; inGroup "" is null.
CompilerInit ==
    [compiled |-> << >>, currentElementChars |-> << >>, inGroup |-> "",
     capturingGroupSeen |-> FALSE, error |-> NoError]

finishElement(st) ==
    [st EXCEPT !.compiled = Append(st.compiled,
                                   Element(st.currentElementChars,
                                           st.inGroup = "(", st.inGroup # "")),
               !.currentElementChars = << >>,
               !.inGroup = ""]

\* lastElement with the modifier's flags set and the characters `chars`.
withModifier(lastElement, modifier, chars) ==
    [chars |-> chars, optional |-> (modifier = "@"), canRepeat |-> (modifier = "!"),
     capturing |-> lastElement.capturing, grouped |-> lastElement.grouped]

LastChar(chars) == << chars[Len(chars)] >>

AllButLast(xs) == SubSeq(xs, 1, Len(xs) - 1)

\* A modifier that takes the whole literal, without splitting it.
modifyLastElementWhole(compiled, modifier) ==
    IF Len(compiled) = 0 THEN compiled
    ELSE AllButLast(compiled)
           \o << withModifier(compiled[Len(compiled)], modifier,
                              compiled[Len(compiled)].chars) >>

modifyLastElement(compiled, modifier) ==
    IF Len(compiled) = 0 THEN compiled
    ELSE IF ~compiled[Len(compiled)].grouped /\ Len(compiled[Len(compiled)].chars) > 1
    THEN AllButLast(compiled)
           \o << Element(AllButLast(compiled[Len(compiled)].chars), FALSE, FALSE),
                 withModifier(compiled[Len(compiled)], modifier,
                              LastChar(compiled[Len(compiled)].chars)) >>
    ELSE AllButLast(compiled)
           \o << withModifier(compiled[Len(compiled)], modifier,
                              compiled[Len(compiled)].chars) >>

\* if (currentElementChars.length > 0) finishElement()
flushLiteral(st) ==
    IF Len(st.currentElementChars) > 0 THEN finishElement(st) ELSE st

\* A group is opened, however many ( groups came before.
openGroupAnyNumber(st, chr) ==
    [st EXCEPT !.inGroup = chr,
               !.capturingGroupSeen = (st.capturingGroupSeen \/ chr = "(")]

\* Lines 84-92: a group is opened; a second ( group is an error.
openGroup(st, chr) ==
    IF chr = "(" /\ st.capturingGroupSeen
    THEN [st EXCEPT !.inGroup = chr,
                    !.error = SortleRegexError("cannot use multiple () groups")]
    ELSE [st EXCEPT !.inGroup = chr,
                    !.capturingGroupSeen = (st.capturingGroupSeen \/ chr = "(")]

\* Line 99: the modifier acts on the last element compiled so far.
applyModifier(st, chr) ==
    [st EXCEPT !.compiled = modifyLastElement(st.compiled, chr)]

\* One iteration of the compiler's loop over the characters of the regex.
compileChar(st, chr) ==
    IF st.error # NoError THEN st
    ELSE IF chr = "[" \/ chr = "("
    THEN IF st.inGroup # ""
         THEN [st EXCEPT !.error = SortleRegexError(
                  "cannot nest groups - unexpected " \o chr
                      \o " inside group of " \o st.inGroup)]
         ELSE openGroup(flushLiteral(st), chr)
    ELSE IF (st.inGroup = "[" /\ chr = "]") \/ (st.inGroup = "(" /\ chr = ")")
    THEN finishElement(st)
    ELSE IF chr = "@" \/ chr = "!"
    THEN applyModifier(IF st.inGroup = "" THEN flushLiteral(st) ELSE st, chr)
    ELSE [st EXCEPT !.currentElementChars = Append(st.currentElementChars, chr)]

RECURSIVE compileLoop(_, _, _)
compileLoop(st, regex, i) ==
    IF i > Len(regex) THEN st
    ELSE compileLoop(compileChar(st, regex[i]), regex, i + 1)

\* Lines 104-110: after the loop.
compileEnd(st) ==
    IF st.error # NoError
    THEN [kind |-> "throw", val |-> << >>, error |-> st.error]
    ELSE IF st.inGroup # ""
    THEN [kind |-> "throw", val |-> << >>,
          error |-> SortleRegexError("unclosed " \o st.inGroup)]
    ELSE [kind |-> "value", val |-> flushLiteral(st).compiled, error |-> NoError]

\* compileRegex: kind "value" with val the compiled elements, or "throw".
compileRegex(regex) == compileEnd(compileLoop(CompilerInit, regex, 1))

\* str.substr(start, length) and str.substr(start), start counted from 0.
Substr(str, start, length) ==
    SubSeq(str, start + 1, Min(start + length, Len(str)))

SubstrFrom(str, start) == SubSeq(str, start + 1, Len(str))

\* chars.match(/^\.*$/)
IsAllDots(chars) == \A i \in 1..Len(chars) : chars[i] = "."

consumeElement(str, strStartPos, chars, repetitions) ==
    LET charsToConsume == Len(chars) * repetitions
    IN  IF charsToConsume > Len(str) - strStartPos THEN FALSE
        ELSE IF IsAllDots(chars) THEN TRUE
        ELSE \A rep \in 0..(repetitions - 1) : \A i \in 0..(Len(chars) - 1) :
                \/ chars[i + 1] = "."
                \/ chars[i + 1] = str[strStartPos + (rep * Len(chars)) + i + 1]

\* What matchCompiledRegexRecursive returns: a match {capturingGroup, match},
\* undefined/false (kind "nomatch"), or nothing at all (kind "hang").
MatchResult(capturingGroup, match) ==
    [kind |-> "match", capturingGroup |-> capturingGroup, match |-> match]

NoMatch == [kind |-> "nomatch", capturingGroup |-> FALSE, match |-> << >>]

HangMatch == [kind |-> "hang", capturingGroup |-> FALSE, match |-> << >>]

\* capturedSubstring: undefined, or a string.
Undefined == [set |-> FALSE, val |-> << >>]

Defined(s) == [set |-> TRUE, val |-> s]

RECURSIVE matchElements(_, _, _, _, _)
RECURSIVE repeatLoop(_, _, _, _, _, _)
RECURSIVE afterTail(_, _, _, _, _, _, _)

\* An end of the match that gives the target back whatever was captured.
matchEndWholeTarget(str, strPos, capturedSubstring) ==
    IF strPos = Len(str) THEN MatchResult(capturedSubstring.set, str) ELSE NoMatch

\* Lines 184-190: all elements are used up.
matchEnd(str, strPos, capturedSubstring) ==
    IF strPos = Len(str)
    THEN MatchResult(capturedSubstring.set,
                     IF capturedSubstring.set THEN capturedSubstring.val ELSE str)
    ELSE NoMatch

\* The loop over regex.entries() from element elIdx (counted from 1) on,
\* with the locals strPos and capturedSubstring.
matchElements(regex, str, elIdx, strPos, capturedSubstring) ==
    IF elIdx > Len(regex) THEN matchEnd(str, strPos, capturedSubstring)
    ELSE IF ~regex[elIdx].optional /\ ~regex[elIdx].canRepeat
    THEN IF ~consumeElement(str, strPos, regex[elIdx].chars, 1) THEN NoMatch
         ELSE matchElements(regex, str, elIdx + 1, strPos + Len(regex[elIdx].chars),
                  IF regex[elIdx].capturing
                  THEN Defined(Substr(str, strPos, Len(regex[elIdx].chars)))
                  ELSE capturedSubstring)
    ELSE repeatLoop(regex, str, elIdx, strPos, capturedSubstring,
                    IF regex[elIdx].optional THEN 0 ELSE 1)

\* A loop that gives up after the first repetition count it tried.
repeatLoopNoBacktrack(regex, str, elIdx, strPos, capturedSubstring, reps) ==
    IF reps > 1 THEN NoMatch
    ELSE IF reps > 0 /\ ~consumeElement(str, strPos, regex[elIdx].chars, reps)
    THEN NoMatch
    ELSE afterTail(
             matchElements(SubSeq(regex, elIdx + 1, Len(regex)),
                           SubstrFrom(str, strPos + (Len(regex[elIdx].chars) * reps)),
                           1, 0, Undefined),
             regex, str, elIdx, strPos, capturedSubstring, reps)

\* for (let reps = minRepeat; reps < maxRepeat; reps++) { ... } return undefined
\* maxRepeat is Infinity for a canRepeat element and 1 otherwise.
repeatLoop(regex, str, elIdx, strPos, capturedSubstring, reps) ==
    IF ~(regex[elIdx].canRepeat \/ reps < 1) THEN NoMatch
    ELSE IF reps > 0 /\ ~consumeElement(str, strPos, regex[elIdx].chars, reps)
    THEN NoMatch
    ELSE afterTail(
             matchElements(SubSeq(regex, elIdx + 1, Len(regex)),
                           SubstrFrom(str, strPos + (Len(regex[elIdx].chars) * reps)),
                           1, 0, Undefined),
             regex, str, elIdx, strPos, capturedSubstring, reps)

\* Lines 162-178: the rest of the loop body, given tailMatch.
afterTail(tailMatch, regex, str, elIdx, strPos, capturedSubstring, reps) ==
    IF tailMatch.kind = "hang" THEN HangMatch
    ELSE IF tailMatch.kind = "match"
    THEN IF tailMatch.capturingGroup THEN tailMatch
         ELSE IF regex[elIdx].capturing
         THEN MatchResult(TRUE, Substr(str, strPos, Len(regex[elIdx].chars) * reps))
         ELSE MatchResult(capturedSubstring.set,
                          IF capturedSubstring.set THEN capturedSubstring.val ELSE str)
    \* An element without characters consumes nothing: every later repetition
    \* sees the same tail, and the loop has no other exit.
    ELSE IF regex[elIdx].canRepeat /\ Len(regex[elIdx].chars) = 0 THEN HangMatch
    ELSE repeatLoop(regex, str, elIdx, strPos, capturedSubstring, reps + 1)

matchCompiledRegexRecursive(regex, str) == matchElements(regex, str, 1, 0, Undefined)

\* matchCompiledRegex: the match's string, or undefined (kind "nomatch").
matchCompiledRegex(regex, str) == matchCompiledRegexRecursive(regex, str)

RECURSIVE searchLoop(_, _, _)

\* Lines 13-15: the result of one candidate decides, or the loop goes on.
searchStep(result, compiledRegex, stringsToMatch, i) ==
    IF result.kind = "hang"
    THEN [kind |-> "hang", val |-> Str(<< >>), error |-> NoError]
    ELSE IF result.kind = "match"
    THEN [kind |-> "value", val |-> Str(result.match), error |-> NoError]
    ELSE searchLoop(compiledRegex, stringsToMatch, i + 1)

\* The loop of evalRegex over stringsToMatch from index i (counted from 1) on.
searchLoop(compiledRegex, stringsToMatch, i) ==
    IF i > Len(stringsToMatch)
    THEN [kind |-> "value", val |-> Str(<< >>), error |-> NoError]
    ELSE searchStep(matchCompiledRegex(compiledRegex, stringsToMatch[i]),
                    compiledRegex, stringsToMatch, i)

\* Lines 11-19, given the outcome of compileRegex.
searchCompiled(compiledRegex, stringsToMatch) ==
    IF compiledRegex.kind = "throw"
    THEN [kind |-> "throw", val |-> Str(<< >>), error |-> compiledRegex.error]
    ELSE searchLoop(compiledRegex.val, stringsToMatch, 1)

evalRegex(regex, stringsToMatch) ==
    searchCompiled(compileRegex(regex), stringsToMatch)

\* ----------------------------------------------- lib/runtime.js: evaluate

Value(v) == [kind |-> "value", val |-> v, error |-> NoError]

Throw(e) == [kind |-> "throw", val |-> Num(0), error |-> e]

Hang == [kind |-> "hang", val |-> Num(0), error |-> NoError]

\* xs.reverse()
Reverse(xs) == [i \in 1..Len(xs) |-> xs[Len(xs) + 1 - i]]

\* The other names from the first to the last, nothing reversed.
expressionsToMatchForward(expressions, ip) ==
    LET entries == SubSeq(expressions, 1, ip)
                     \o SubSeq(expressions, ip + 2, Len(expressions))
    IN  [i \in 1..Len(entries) |-> entries[i].name]

\* The names the ? operator tries, in order, when the expression at index ip
\* (counted from 0) is evaluated.
expressionsToMatch(expressions, ip) ==
    LET entries == Reverse(SubSeq(expressions, 1, ip))
                     \o Reverse(SubSeq(expressions, ip + 2, Len(expressions)))
    IN  [i \in 1..Len(entries) |-> entries[i].name]

Divide(op1, op2) == JsFloorDiv(sortleNumber(op1), sortleNumber(op2))

Remainder(op1, op2) == JsMod(sortleNumber(op1), sortleNumber(op2))

Concat(op1, op2) == sortleString(op2) \o sortleString(op1)

\* sop1 > sop2 ? sop1 : sop2
StrMax(sop1, sop2) == IF StrGreater(sop1, sop2) THEN sop1 ELSE sop2

\* Lines 127-130: the result of evalRegex is pushed, its error propagates.
regexOutcome(r) ==
    IF r.kind = "throw" THEN Throw(r.error)
    ELSE IF r.kind = "hang" THEN Hang
    ELSE Value(r.val)

\* One operator applied to the two popped values: what is pushed, or thrown.
applyOperator(operator, op1, op2, expressions, ip) ==
    CASE operator = "+" -> Value(JsAdd(sortleNumber(op1), sortleNumber(op2)))
      [] operator = "*" -> Value(JsMul(sortleNumber(op1), sortleNumber(op2)))
      [] operator = "/" -> Value(Divide(op1, op2))
      [] operator = "%" -> Value(Remainder(op1, op2))
      [] operator = "^" \/ operator = "$" ->
            Value(Str(StrMax(sortleString(op1), sortleString(op2))))
      [] operator = "~" -> Value(Str(Concat(op1, op2)))
      [] operator = "?" ->
            IF sortleString(op1) # << >>
            THEN Throw(SortleRuntimeError("substring regex form not implemented"))
            ELSE regexOutcome(evalRegex(sortleString(op2),
                                        expressionsToMatch(expressions, ip)))
      [] OTHER -> Throw(SortleRuntimeError(
                      "internal error: unimplemented operator " \o operator))

RECURSIVE evaluateLoop(_, _, _, _, _)

\* An operator whose result is pushed on top of its two operands.
afterOperatorNoPop(r, terms, i, stack, expressions, ip) ==
    IF r.kind # "value" THEN r
    ELSE evaluateLoop(terms, i + 1, Append(stack, r.val), expressions, ip)

\* The operator's result r replaces the two popped values, or its error ends
\* the evaluation.
afterOperator(r, terms, i, stack, expressions, ip) ==
    IF r.kind # "value" THEN r
    ELSE evaluateLoop(terms, i + 1, Append(SubSeq(stack, 1, Len(stack) - 2), r.val),
                      expressions, ip)

\* The loop of evaluate over terms from index i (counted from 1) on; the top
\* of the stack is its last element.
evaluateLoop(terms, i, stack, expressions, ip) ==
    IF i > Len(terms)
    THEN IF Len(stack) # 1
         THEN Throw(SortleRuntimeError(
                  "stack must end with exactly 1 value, but ended with "
                      \o ToString(Len(stack))))
         ELSE Value(stack[1])
    ELSE IF IsString(terms[i]) \/ IsNumber(terms[i])
    THEN evaluateLoop(terms, i + 1, Append(stack, terms[i]), expressions, ip)
    ELSE IF Len(stack) < 2
    THEN Throw(SortleRuntimeError(
             "cannot execute " \o terms[i].str[1]
                 \o ": need 2 elements on stack, have " \o ToString(Len(stack))))
    ELSE afterOperator(
             applyOperator(terms[i].str[1], stack[Len(stack)], stack[Len(stack) - 1],
                           expressions, ip),
             terms, i, stack, expressions, ip)

evaluate(terms, expressions, ip) == evaluateLoop(terms, 1, << >>, expressions, ip)

\* --------------------------------------------- lib/runtime.js: runProgram

\* A removal that takes the next entry along: xs.splice(i, 2).
RemoveTwoAt(xs, i) == SubSeq(xs, 1, i) \o SubSeq(xs, i + 3, Len(xs))

\* xs.splice(i, 1) and xs.splice(i, deleteCount, x), i counted from 0.
RemoveAt(xs, i) == SubSeq(xs, 1, i) \o SubSeq(xs, i + 2, Len(xs))

\* A splice that always writes over the entry at i.
SpliceOver(xs, i, deleteCount, x) ==
    SubSeq(xs, 1, i) \o <<x>> \o SubSeq(xs, i + 2, Len(xs))

Splice(xs, i, deleteCount, x) ==
    SubSeq(xs, 1, i) \o <<x>> \o SubSeq(xs, i + 1 + deleteCount, Len(xs))

\* A search that stops at the first name strictly greater than newName.
findIndexGreater(expressions, newName) ==
    IF \E i \in 1..Len(expressions) : StrGreater(expressions[i].name, newName)
    THEN (CHOOSE i \in 1..Len(expressions) :
             /\ StrGreater(expressions[i].name, newName)
             /\ \A k \in 1..(i - 1) : ~StrGreater(expressions[k].name, newName)) - 1
    ELSE -1

\* expressions.findIndex(e => e[0] >= newName): the first such index, counted
\* from 0, or -1.
findIndex(expressions, newName) ==
    IF \E i \in 1..Len(expressions) : StrGeq(expressions[i].name, newName)
    THEN (CHOOSE i \in 1..Len(expressions) :
             /\ StrGeq(expressions[i].name, newName)
             /\ \A k \in 1..(i - 1) : ~StrGeq(expressions[k].name, newName)) - 1
    ELSE -1

\* A wrap test that is off by one.
wrapLate(ip, length) == IF ip > length THEN 0 ELSE ip

\* if (ip === expressions.length) ip = 0
wrap(ip, length) == IF ip = length THEN 0 ELSE ip

\* if (indexToInsertBefore === -1) indexToInsertBefore = expressions.length
orLength(found, length) == IF found = -1 THEN length ELSE found

\* A clobber test that looks at the entry before the insertion index.
clobberingPrevious(removed, indexToInsertBefore, newName) ==
    /\ indexToInsertBefore > 0
    /\ removed[indexToInsertBefore].name = newName

\* Lines 40-43
clobbering(removed, indexToInsertBefore, newName) ==
    /\ indexToInsertBefore < Len(removed)
    /\ removed[indexToInsertBefore + 1].name = newName

\* A splice that leaves ip on the entry it put in.
insertAtNoAdvance(removed, indexToInsertBefore, newEntry) ==
    [expressions |->
         Splice(removed, indexToInsertBefore,
                IF clobbering(removed, indexToInsertBefore, newEntry.name)
                THEN 1 ELSE 0,
                newEntry),
     ip |-> indexToInsertBefore,
     kind |-> IF clobbering(removed, indexToInsertBefore, newEntry.name)
              THEN "clobber" ELSE "insert",
     index |-> indexToInsertBefore]

\* Lines 44-49: the splice and the new ip, given indexToInsertBefore.
insertAt(removed, indexToInsertBefore, newEntry) ==
    [expressions |->
         Splice(removed, indexToInsertBefore,
                IF clobbering(removed, indexToInsertBefore, newEntry.name)
                THEN 1 ELSE 0,
                newEntry),
     ip |-> indexToInsertBefore + 1,
     kind |-> IF clobbering(removed, indexToInsertBefore, newEntry.name)
              THEN "clobber" ELSE "insert",
     index |-> indexToInsertBefore]

\* A reinsertion without the test for the empty name.
reinsertAlways(removed, ip, newEntry) ==
    insertAt(removed, orLength(findIndex(removed, newEntry.name), Len(removed)),
             newEntry)

\* Lines 33-50: the state after the evaluated entry was removed, ip and the
\* new entry give the state and ip before the wrap test.
reinsert(removed, ip, newEntry) ==
    IF newEntry.name # << >>
    THEN insertAt(removed,
                  orLength(findIndex(removed, newEntry.name), Len(removed)),
                  newEntry)
    ELSE [expressions |-> removed, ip |-> ip, kind |-> "delete", index |-> ip]

\* Lines 52-54 applied to the outcome r of the reinsertion.
wrapped(r) == [r EXCEPT !.ip = wrap(r.ip, Len(r.expressions))]

\* A loop body without the wrap test of lines 52-54.
rewriteNoWrap(expressions, ip, newName) ==
    reinsert(RemoveAt(expressions, ip), ip,
             [name |-> newName, terms |-> expressions[ip + 1].terms])

\* Lines 30-54: the body of the loop after the evaluation returned newName.
\* The result holds the new expressions and ip, what was done (kind "insert",
\* "clobber" or "delete") and where (index).
rewrite(expressions, ip, newName) ==
    wrapped(reinsert(RemoveAt(expressions, ip), ip,
                     [name |-> newName, terms |-> expressions[ip + 1].terms]))

\* ------------------------------------- sortle.js: the command-line interpreter
\* The command-line program carries its own copy of the engine.  Where the
\* library throws a SortleRuntimeError, it prints to stderr and calls
\* process.exit(1) (kind "exit": the process ends there, the message is the
\* first line printed) or throws a plain Error nobody catches (kind "throw").

Error(message) == [name |-> "Error", message |-> message]

ProcessExit(message) ==
    [kind |-> "exit", val |-> Num(0),
     error |-> [name |-> "process.exit", message |-> message]]

\* Lines 108-118
cliSortleString(input) ==
    IF IsString(input) THEN input.str
    ELSE IF input = Num(0) THEN << >>
    ELSE JsString(input)

\* Lines 120-129
cliSortleNumber(input) ==
    IF IsNumber(input) THEN input
    ELSE Num(ParseDecimal(<<"0">> \o DigitPrefix(input.str)))

\* Lines 170-173 and 179: the names handed to evalRegex, in order.
cliExpressionsToMatch(expressions, ip) ==
    LET entries == Reverse(SubSeq(expressions, 1, ip))
                     \o Reverse(SubSeq(expressions, ip + 2, Len(expressions)))
    IN  [i \in 1..Len(entries) |-> entries[i].name]

\* Lines 175-190: a SortleRegexError is printed and ends the process.
cliRegexOutcome(r) ==
    IF r.kind = "throw" THEN ProcessExit("error: " \o r.error.message)
    ELSE IF r.kind = "hang" THEN Hang
    ELSE Value(r.val)

\* Lines 149-193: one operator applied to the two popped values.
cliApplyOperator(operator, op1, op2, expressions, ip) ==
    CASE operator = "+" -> Value(JsAdd(cliSortleNumber(op1), cliSortleNumber(op2)))
      [] operator = "*" -> Value(JsMul(cliSortleNumber(op1), cliSortleNumber(op2)))
      [] operator = "/" ->
            Value(JsFloorDiv(cliSortleNumber(op1), cliSortleNumber(op2)))
      [] operator = "%" -> Value(JsMod(cliSortleNumber(op1), cliSortleNumber(op2)))
      [] operator = "^" \/ operator = "$" ->
            Value(Str(StrMax(cliSortleString(op1), cliSortleString(op2))))
      [] operator = "~" -> Value(Str(cliSortleString(op2) \o cliSortleString(op1)))
      [] operator = "?" ->
            IF cliSortleString(op1) # << >>
            THEN Throw(Error("substring regex form not implemented"))
            ELSE cliRegexOutcome(
                     evalRegex(cliSortleString(op2),
                               cliExpressionsToMatch(expressions, ip)))
      [] OTHER -> Throw(Error("internal error: unimplemented operator " \o operator))

RECURSIVE cliEvaluateLoop(_, _, _, _, _)

\* Lines 147-148, 150-190: the operator's result r replaces the two popped
\* values, or ends the evaluation.
cliAfterOperator(r, terms, i, stack, expressions, ip) ==
    IF r.kind # "value" THEN r
    ELSE cliEvaluateLoop(terms, i + 1,
                         Append(SubSeq(stack, 1, Len(stack) - 2), r.val),
                         expressions, ip)

\* Lines 134-203: the loop of the CLI's evaluate over terms from index i
\* (counted from 1) on; the top of the stack is its last element.
cliEvaluateLoop(terms, i, stack, expressions, ip) ==
    IF i > Len(terms)
    THEN IF Len(stack) # 1
         THEN ProcessExit("error: stack must end with exactly 1 value, but ended with "
                              \o ToString(Len(stack)))
         ELSE Value(stack[1])
    ELSE IF IsString(terms[i]) \/ IsNumber(terms[i])
    THEN cliEvaluateLoop(terms, i + 1, Append(stack, terms[i]), expressions, ip)
    ELSE IF Len(stack) < 2
    THEN ProcessExit("cannot execute " \o terms[i].str[1]
                         \o ": need 2 elements on stack, have "
                         \o ToString(Len(stack)))
    ELSE cliAfterOperator(
             cliApplyOperator(terms[i].str[1], stack[Len(stack)],
                              stack[Len(stack) - 1], expressions, ip),
             terms, i, stack, expressions, ip)

\* A search that stops at the first name strictly greater than newName.
cliFindIndexGreater(expressions, newName) ==
    IF \E i \in 1..Len(expressions) : StrGreater(expressions[i].name, newName)
    THEN (CHOOSE i \in 1..Len(expressions) :
             /\ StrGreater(expressions[i].name, newName)
             /\ \A k \in 1..(i - 1) : ~StrGreater(expressions[k].name, newName)) - 1
    ELSE -1

\* Lines 81-83: expressions.findIndex(e => e[0] >= newName), counted from 0.
cliFindIndex(expressions, newName) ==
    IF \E i \in 1..Len(expressions) : StrGeq(expressions[i].name, newName)
    THEN (CHOOSE i \in 1..Len(expressions) :
             /\ StrGeq(expressions[i].name, newName)
             /\ \A k \in 1..(i - 1) : ~StrGeq(expressions[k].name, newName)) - 1
    ELSE -1

\* Lines 87-90
cliClobbering(removed, indexToInsertBefore, newName) ==
    /\ indexToInsertBefore < Len(removed)
    /\ removed[indexToInsertBefore + 1].name = newName

\* Lines 91-96: the splice and the new ip.
cliInsertAt(removed, indexToInsertBefore, newEntry) ==
    [expressions |->
         SubSeq(removed, 1, indexToInsertBefore) \o <<newEntry>>
             \o SubSeq(removed,
                       indexToInsertBefore + 1
                           + (IF cliClobbering(removed, indexToInsertBefore,
                                               newEntry.name)
                              THEN 1 ELSE 0),
                       Len(removed)),
     ip |-> indexToInsertBefore + 1]

\* Lines 80-101, given the state after the splice of line 79: the new entry
\* goes in unless its name is empty (an index of -1 stands for the length,
\* lines 84-86), then ip wraps.
cliReinsert(removed, ip, newEntry) ==
    LET r == IF newEntry.name # << >>
             THEN cliInsertAt(removed,
                              IF cliFindIndex(removed, newEntry.name) = -1
                              THEN Len(removed)
                              ELSE cliFindIndex(removed, newEntry.name),
                              newEntry)
             ELSE [expressions |-> removed, ip |-> ip]
    IN  [r EXCEPT !.ip = IF r.ip = Len(r.expressions) THEN 0 ELSE r.ip]

\* Lines 77-101: the body of the loop after the evaluation gave newName.
cliRewrite(expressions, ip, newName) ==
    cliReinsert(SubSeq(expressions, 1, ip)
                    \o SubSeq(expressions, ip + 2, Len(expressions)),
                ip,
                [name |-> newName, terms |-> expressions[ip + 1].terms])

\* Lines 75-101: one iteration, given the outcome of the evaluation.
cliIterated(c, result) ==
    IF result.kind = "exit"
    THEN [c EXCEPT !.pc = "exited", !.err = result.error.message]
    ELSE IF result.kind = "throw"
    THEN [c EXCEPT !.pc = "thrown", !.err = result.error.message]
    ELSE IF result.kind = "hang" THEN [c EXCEPT !.pc = "hung"]
    ELSE [c EXCEPT
            !.expressions =
                cliRewrite(c.expressions, c.ip, cliSortleString(result.val)).expressions,
            !.ip = cliRewrite(c.expressions, c.ip, cliSortleString(result.val)).ip]

\* executeSortleProgram, one step on: the entry with c.given (lines 65-73:
\* the empty program ends the process, any other is copied), one iteration of
\* the loop of lines 74-102, or the end of the loop, where line 105 prints
\* the remaining name.  A run that has ended stays as it is.
executeSortleProgram(c) ==
    IF c.pc = "call"
    THEN IF Len(c.given) = 0
         THEN [c EXCEPT !.pc = "exited",
                        !.err = "program must have at least one expression"]
         ELSE [c EXCEPT !.pc = "loop", !.expressions = c.given, !.ip = 0]
    ELSE IF c.pc # "loop" THEN c
    ELSE IF Len(c.expressions) > 1
    THEN cliIterated(c, cliEvaluateLoop(c.expressions[c.ip + 1].terms, 1, << >>,
                                        c.expressions, c.ip))
    ELSE [c EXCEPT !.pc = "returned", !.out = c.expressions[1].name]

\* ---------------------------------------------------------- the parser

\* Object.keys(expressions).sort(): the names in increasing order.
RECURSIVE sortedKeys(_)
sortedKeys(names) ==
    IF names = {} THEN << >>
    ELSE LET m == CHOOSE x \in names : \A y \in names \ {x} : StrLess(x, y)
         IN  <<m>> \o sortedKeys(names \ {m})

\* The array parseSortleProgram returns for the object `expressions` it built
\* (a function from the names read to their terms).
parseResult(dict) ==
    LET keys == sortedKeys(DOMAIN dict)
    IN  [i \in 1..Len(keys) |-> [name |-> keys[i], terms |-> dict[keys[i]]]]

\* The expression names of the programs explored: [A-Za-z]+.
NameSet == { <<"a">>, <<"a", "b">>, <<"b">>, <<"c">> }

S(str) == Str(str)

\* The expression bodies of the programs explored.
Bodies ==
    { << Num(0) >>,                                    \* 0          deletes itself
      << S(<<"b">>) >>,                                \* "b"
      << S(<<"a">>), S(<<"b">>), Op("~") >>,           \* "a" "b" ~
      << Num(1), Num(2), Op("+") >>,                   \* 1 2 +
      << Num(0), Num(5), Op("/") >>,                   \* 0 5 /
      << Num(5), Num(0), Op("/") >>,                   \* 5 0 /
      << Num(0), Num(0), Op("%") >>,                   \* 0 0 %
      << Op("+") >>,                                   \* +          underflow
      << Num(1), Num(2) >>,                            \* 1 2        residue
      << S(<<"(">>), Num(0), Op("?") >>,               \* "(" 0 ?    unclosed group
      << S(<<"a">>), Num(1), Op("?") >>,               \* "a" 1 ?    substring form
      << S(<<".">>), Num(0), Op("?") >>,               \* "." 0 ?    a one-letter name
      << S(<<".", "!">>), Num(0), Op("?"),
         S(<<"a">>), Op("~") >> }                      \* ".!" 0 ? "a" ~   grows

\* The objects the parser can have built: at most MaxProgLen names, each with
\* a body.
Dicts ==
    UNION { [names -> Bodies] :
              names \in { T \in SUBSET NameSet : Cardinality(T) <= MaxProgLen } }

Programs == { parseResult(dict) : dict \in Dicts }

\* -------------------------------------------------------------- the state

VARIABLES
    program,      \* the array runProgram is called with
    expressions,  \* runProgram's `expressions`
    ip,           \* runProgram's `ip`, counted from 0
    pc,           \* "call": not yet entered; "loop": at the loop test;
                  \* "returned", "thrown"; "hung": an evaluation never returns
    ret,          \* what runProgram returned (val) or threw (error)
    last,         \* the most recent loop iteration: what it did and where
    ev,           \* one call of evaluate on its own: the arguments, the outcome
    page,         \* the debugger: SortlePage's this.state
    idle,         \* the debugger: _idleCallbackId and the callback it names
    browser,      \* "ok", or "hung" once a handler of the page never returns
    rx,           \* one call of evalRegex on its own: the arguments, the outcome
    co,           \* one conversion of a number to a string and back
    cli           \* the command-line interpreter: executeSortleProgram's run

vars == <<program, expressions, ip, pc, ret, last, ev, page, idle, browser, rx, co, cli>>

NoReturn == [val |-> << >>, error |-> NoError]

NoStep == [kind |-> "none", ip |-> 0, name |-> << >>, newName |-> << >>, index |-> 0]

NoEval == [pc |-> "none", terms |-> << >>, expressions |-> << >>, ip |-> 0,
           result |-> Hang]

\* No call of compileRegex yet.
NoCompiled == [kind |-> "none", val |-> << >>, error |-> NoError]

NoRegexCall == [pc |-> "none", regex |-> << >>, str |-> << >>,
                compiled |-> NoCompiled, result |-> NoMatch]

NoConversion == [pc |-> "none", n |-> 0, str |-> << >>, back |-> Num(0)]

\* executeSortleProgram is not called.
NoCli == [pc |-> "none", given |-> << >>, expressions |-> << >>, ip |-> 0,
          out |-> << >>, err |-> ""]

\* The text of the code pane: '' (kind "blank"), a text the parser accepts
\* (kind "text", dict the object the parser builds from it) or a text it
\* rejects (kind "invalid").
BlankCode == [kind |-> "blank", dict |-> << >>]

InvalidCode == [kind |-> "invalid", dict |-> << >>]

TextCode(dict) == [kind |-> "text", dict |-> dict]

\* null, or a value, for runResult (a name) and runError (a message).
NoResult == [set |-> FALSE, val |-> << >>]

NoRunError == [set |-> FALSE, val |-> ""]

\* this.state as the constructor sets it.
PageConstructed ==
    [code |-> BlankCode, running |-> FALSE, runningCode |-> BlankCode,
     runState |-> << >>, runIP |-> 0, runResult |-> NoResult,
     runError |-> NoRunError]

\* _idleCallbackId (id: whether it is set), and whether the callback it names
\* is still to run, with the maxSteps it will pass to executeCode.
\* stray counts the callbacks still to run that _idleCallbackId has lost.
NoIdleCallback ==
    [id |-> FALSE, pending |-> FALSE, maxSteps |-> "Infinity", stray |-> 0]

Init ==
    /\ program \in Programs
    /\ expressions = program
    /\ ip = 0
    /\ pc = "call"
    /\ ret = NoReturn
    /\ last = NoStep
    /\ ev = NoEval
    /\ page = PageConstructed
    /\ idle = NoIdleCallback
    /\ browser = "ok"
    /\ rx = NoRegexCall
    /\ co = NoConversion
    /\ cli = NoCli

\* Lines 18-26: the empty program is rejected, any other is copied.
Enter ==
    /\ pc = "call"
    /\ IF Len(expressions) = 0
       THEN /\ pc' = "thrown"
            /\ ret' = [val |-> << >>,
                       error |-> SortleRuntimeError(
                                     "program must have at least one expression")]
       ELSE /\ pc' = "loop"
            /\ ret' = ret
    /\ expressions' = expressions
    /\ ip' = 0
    /\ UNCHANGED <<program, last, ev, page, idle, browser, rx, co, cli>>

\* The record `last` keeps of a loop iteration.
StepRecord(kind, newName, index) ==
    [kind |-> kind, ip |-> ip, name |-> expressions[ip + 1].name,
     newName |-> newName, index |-> index]

\* Lines 30-54 of the iteration: r is the outcome of the rewrite.
Commit(newName, r) ==
    /\ Len(newName) <= MaxNameLen
    /\ expressions' = r.expressions
    /\ ip' = r.ip
    /\ last' = StepRecord(r.kind, newName, r.index)
    /\ UNCHANGED <<pc, ret>>

\* An iteration that removes the expression before it evaluates it.
EvaluatedAfterRemoval(result) ==
    IF result.kind = "throw"
    THEN /\ pc' = "thrown"
         /\ ret' = [val |-> << >>, error |-> result.error]
         /\ last' = StepRecord("throw", << >>, 0)
         /\ expressions' = RemoveAt(expressions, ip)
         /\ ip' = ip
    ELSE IF result.kind = "hang"
    THEN /\ pc' = "hung"
         /\ last' = StepRecord("hang", << >>, 0)
         /\ UNCHANGED <<expressions, ip, ret>>
    ELSE Commit(sortleString(result.val),
                rewrite(expressions, ip, sortleString(result.val)))

\* Line 29 on, given the outcome of the evaluation: an error leaves the loop
\* before anything is changed.
Evaluated(result) ==
    IF result.kind = "throw"
    THEN /\ pc' = "thrown"
         /\ ret' = [val |-> << >>, error |-> result.error]
         /\ last' = StepRecord("throw", << >>, 0)
         /\ UNCHANGED <<expressions, ip>>
    ELSE IF result.kind = "hang"
    THEN /\ pc' = "hung"
         /\ last' = StepRecord("hang", << >>, 0)
         /\ UNCHANGED <<expressions, ip, ret>>
    ELSE Commit(sortleString(result.val),
                rewrite(expressions, ip, sortleString(result.val)))

\* A loop that runs until the state is empty.
loopTestNonEmpty(state) == Len(state) > 0

\* Line 27: while (expressions.length > 1)
loopTest(state) == Len(state) > 1

\* Lines 27-55: one iteration of the loop.
Step ==
    /\ pc = "loop"
    /\ loopTest(expressions)
    /\ Evaluated(evaluate(expressions[ip + 1].terms, expressions, ip))
    /\ UNCHANGED <<program, ev, page, idle, browser, rx, co, cli>>

\* Lines 27, 58: the loop ends and the remaining name is returned.
Return ==
    /\ pc = "loop"
    /\ ~loopTest(expressions)
    /\ pc' = "returned"
    /\ ret' = [val |-> expressions[1].name, error |-> NoError]
    /\ UNCHANGED <<program, expressions, ip, last, ev, page, idle, browser, rx, co, cli>>

Next == Enter \/ Step \/ Return

Spec == Init /\ [][Next]_vars

\* ------------------------------------------------ the evaluator on its own

\* The values a term of the evaluator's input space pushes.
EvalOperands ==
    { Num(n) : n \in 0..MaxLit }
        \cup { Str(<< >>), Str(<<"3">>), Str(<<"2", "a">>), Str(<<"b">>) }

\* Bodies of two literals and an operator.
EvalTerms ==
    { << x, y, Op(o) >> : x \in EvalOperands, y \in EvalOperands, o \in OPERATORS }

\* The longest of the bodies of every shape.
MaxBodyLen == 4

\* Bodies of every shape up to that length: literals and operators in any
\* order, the empty body included.
ShapeTerms == { Num(1), Str(<<"b">>), Op("+"), Op("~") }

EvalShapes == UNION { [1..n -> ShapeTerms] : n \in 0..MaxBodyLen }

\* The program state the evaluator reads (only the ? operator does).
EvalState ==
    << [name |-> <<"3">>, terms |-> << Num(0) >>],
       [name |-> <<"a">>, terms |-> << Num(0) >>],
       [name |-> <<"b">>, terms |-> << Num(0) >>] >>

InitEval ==
    /\ program = << >>
    /\ expressions = << >>
    /\ ip = 0
    /\ pc = "call"
    /\ ret = NoReturn
    /\ last = NoStep
    /\ page = PageConstructed
    /\ idle = NoIdleCallback
    /\ browser = "ok"
    /\ rx = NoRegexCall
    /\ co = NoConversion
    /\ cli = NoCli
    /\ \E terms \in EvalTerms \cup EvalShapes, i \in 0..(Len(EvalState) - 1) :
          ev = [pc |-> "call", terms |-> terms, expressions |-> EvalState,
                ip |-> i, result |-> Hang]

\* evaluate(terms, expressions, ip) runs to its end.
Evaluate ==
    /\ ev.pc = "call"
    /\ ev' = [ev EXCEPT !.pc = "done",
                        !.result = evaluate(ev.terms, ev.expressions, ev.ip)]
    /\ UNCHANGED <<program, expressions, ip, pc, ret, last, page, idle, browser, rx, co, cli>>

NextEval == Evaluate

SpecEval == InitEval /\ [][NextEval]_vars

\* ------------------------------------------- the regex engine on its own

\* The most pieces a pattern of the regex input space is made of, and the
\* longest target.
MaxPieces == 3

MaxTargetLen == 3

\* The pieces of the patterns: every character the compiler tells apart, a
\* literal, and two whole groups.
RegexPieces ==
    { <<"a">>, <<".">>, <<"(">>, <<")">>, <<"[">>, <<"]">>, <<"!">>, <<"@">>,
      <<"(", "a", ")">>, <<"[", "a", ".", "]">> }

\* The patterns made of at most n pieces.
RECURSIVE Patterns(_)
Patterns(n) ==
    IF n = 0 THEN { << >> }
    ELSE Patterns(n - 1)
           \cup { p \o q : p \in Patterns(n - 1), q \in RegexPieces }

\* The characters of the targets.
TargetChars == {"a", "b"}

\* The strings of at most n characters over chars.
Strings(chars, n) == UNION { [1..k -> chars] : k \in 0..n }

InitRegex ==
    /\ program = << >>
    /\ expressions = << >>
    /\ ip = 0
    /\ pc = "call"
    /\ ret = NoReturn
    /\ last = NoStep
    /\ ev = NoEval
    /\ page = PageConstructed
    /\ idle = NoIdleCallback
    /\ browser = "ok"
    /\ co = NoConversion
    /\ cli = NoCli
    /\ \E regex \in Patterns(MaxPieces),
          str \in Strings(TargetChars, MaxTargetLen) :
          rx = [pc |-> "call", regex |-> regex, str |-> str,
                compiled |-> NoCompiled, result |-> NoMatch]

\* evalRegex line 10: the pattern is compiled, or the compiler throws.
CompileRegex ==
    /\ rx.pc = "call"
    /\ rx' = [pc |-> IF compileRegex(rx.regex).kind = "throw"
                     THEN "thrown" ELSE "compiled",
              regex |-> rx.regex, str |-> rx.str,
              compiled |-> compileRegex(rx.regex), result |-> NoMatch]
    /\ UNCHANGED <<program, expressions, ip, pc, ret, last, ev, page, idle,
                   browser, co, cli>>

\* evalRegex lines 11-16 for the one candidate str: the compiled pattern is
\* matched against it.
MatchRegex ==
    /\ rx.pc = "compiled"
    /\ rx' = [pc |-> "done", regex |-> rx.regex, str |-> rx.str,
              compiled |-> rx.compiled,
              result |-> matchCompiledRegex(rx.compiled.val, rx.str)]
    /\ UNCHANGED <<program, expressions, ip, pc, ret, last, ev, page, idle,
                   browser, co, cli>>

NextRegex == CompileRegex \/ MatchRegex

SpecRegex == InitRegex /\ [][NextRegex]_vars

\* ------------------------------------------------ the coercions on their own

\* The largest absolute value of the numbers converted.
MaxInt == 120

InitCoerce ==
    /\ program = << >>
    /\ expressions = << >>
    /\ ip = 0
    /\ pc = "call"
    /\ ret = NoReturn
    /\ last = NoStep
    /\ ev = NoEval
    /\ page = PageConstructed
    /\ idle = NoIdleCallback
    /\ browser = "ok"
    /\ rx = NoRegexCall
    /\ cli = NoCli
    /\ \E n \in (0 - MaxInt)..MaxInt :
          co = [pc |-> "call", n |-> n, str |-> << >>, back |-> Num(0)]

\* sortleString(n)
ConvertToString ==
    /\ co.pc = "call"
    /\ co' = [co EXCEPT !.pc = "string", !.str = sortleString(Num(co.n))]
    /\ UNCHANGED <<program, expressions, ip, pc, ret, last, ev, page, idle,
                   browser, rx, cli>>

\* sortleNumber of the string sortleString returned
ConvertToNumber ==
    /\ co.pc = "string"
    /\ co' = [co EXCEPT !.pc = "done", !.back = sortleNumber(Str(co.str))]
    /\ UNCHANGED <<program, expressions, ip, pc, ret, last, ev, page, idle,
                   browser, rx, cli>>

NextCoerce == ConvertToString \/ ConvertToNumber

SpecCoerce == InitCoerce /\ [][NextCoerce]_vars

\* ------------------------------------------------ the debugger: SortlePage

\* The most steps one call of executeCode takes before Date.now() passes
\* yieldAfter.
MaxBatch == 2

\* stepThroughProgram is imported from lib/runtime (line 4) and called at
\* line 80; lib/runtime does not define it.  It is the single step of the
\* rewrite engine: its definitions below follow the seven points of that
\* step one by one.

\* 3. Remove state[ip].
stepRemoved(state, runIP) ==
    [j \in 1..(Len(state) - 1) |-> IF j <= runIP THEN state[j] ELSE state[j + 1]]

\* 5. The insertion index: the smallest index whose name is >= new_name, or
\* the length if there is none; the names before it are all below new_name.
stepInsertionIndex(state, newName) ==
    Cardinality({ j \in 1..Len(state) :
                    \A k \in 1..j : StrLess(state[k].name, newName) })

\* 5. A clobber replaces state[j], otherwise the new entry goes in at j.
stepPlaced(state, j, entry) ==
    IF j < Len(state) /\ state[j + 1].name = entry.name
    THEN [state EXCEPT ![j + 1] = entry]
    ELSE [i \in 1..(Len(state) + 1) |->
             IF i <= j THEN state[i]
             ELSE IF i = j + 1 THEN entry
             ELSE state[i - 1]]

\* 6. The next ip, wrapped to 0 at the length of the state.
stepRewritten(state, nextIP) ==
    [kind |-> "value", expressions |-> state,
     ip |-> IF nextIP = Len(state) THEN 0 ELSE nextIP,
     error |-> NoError]

\* 4-6. A deleted expression keeps ip; an inserted or clobbering one at j
\* sets it to j + 1.
stepReinserted(removed, runIP, entry) ==
    IF entry.name = << >>
    THEN stepRewritten(removed, runIP)
    ELSE stepRewritten(stepPlaced(removed,
                                  stepInsertionIndex(removed, entry.name),
                                  entry),
                       stepInsertionIndex(removed, entry.name) + 1)

\* 2-6. The outcome of one call, given the result of the evaluation: on
\* "value" the state as rewritten and the ip returned; an error leaves the
\* step with the state untouched.
stepOutcome(result, state, runIP) ==
    IF result.kind = "value"
    THEN stepReinserted(stepRemoved(state, runIP), runIP,
                        [name |-> sortleString(result.val),
                         terms |-> state[runIP + 1].terms])
    ELSE [kind |-> result.kind, expressions |-> state, ip |-> runIP,
          error |-> result.error]

\* 1-2. stepThroughProgram(state, runIP): one rewrite of the state in place,
\* the next runIP returned.
stepThroughProgram(state, runIP) ==
    stepOutcome(evaluate(state[runIP + 1].terms, state, runIP), state, runIP)

\* How the do-while of executeCode was left.
BatchEnd(end, runState, runIP, error) ==
    [end |-> end, runState |-> runState, runIP |-> runIP, error |-> error]

RECURSIVE batchLoop(_, _, _, _)
RECURSIVE batchStepped(_, _, _, _, _)

\* Lines 79-95: the step was taken with outcome o; limit is the number of
\* steps after which the while test fails.
batchStepped(o, runState, runIP, evaluations, limit) ==
    IF o.kind = "throw"
    THEN BatchEnd("error", runState, runIP, o.error)
    ELSE IF o.kind = "hang"
    THEN BatchEnd("hang", runState, runIP, NoError)
    ELSE IF evaluations + 1 < limit
    THEN batchLoop(o.expressions, o.ip, evaluations + 1, limit)
    ELSE BatchEnd("yield", o.expressions, o.ip, NoError)

\* Lines 69-95: the do-while after `evaluations` steps.
batchLoop(runState, runIP, evaluations, limit) ==
    IF Len(runState) = 1
    THEN BatchEnd("result", runState, runIP, NoError)
    ELSE batchStepped(stepThroughProgram(runState, runIP), runState, runIP,
                      evaluations, limit)

\* Lines 39-47: requestIdle(() => this.executeCode(maxSteps)) when the idle
\* callback is i: the callback _idleCallbackId names is cancelled, a pending
\* one it does not name stays, and the new one is requested.
requestIdle(i, maxSteps) ==
    [id |-> TRUE, pending |-> TRUE, maxSteps |-> maxSteps,
     stray |-> i.stray + (IF i.pending /\ ~i.id THEN 1 ELSE 0)]

\* Lines 70-109: the setState that follows the do-while, from the state p of
\* the page and i of the idle callback.  maxSteps is 1 or Infinity, so
\* `evaluations < maxSteps` after at least one step is `maxSteps = Infinity`,
\* and maxSteps - evaluations is Infinity again.
batchDone(p, i, b, maxSteps) ==
    IF b.end = "result"
    THEN /\ page' = [p EXCEPT !.running = FALSE,
                              !.runResult = [set |-> TRUE,
                                             val |-> b.runState[1].name]]
         /\ idle' = i
         /\ browser' = browser
    ELSE IF b.end = "error"
    THEN /\ page' = [p EXCEPT !.running = FALSE,
                              !.runError = [set |-> TRUE,
                                            val |-> b.error.message]]
         /\ idle' = i
         /\ browser' = browser
    ELSE IF b.end = "hang"
    THEN /\ page' = p
         /\ idle' = i
         /\ browser' = "hung"
    ELSE /\ page' = [p EXCEPT !.runState = b.runState, !.runIP = b.runIP,
                              !.running = (maxSteps = "Infinity")]
         /\ idle' = IF maxSteps = "Infinity" THEN requestIdle(i, "Infinity") ELSE i
         /\ browser' = browser

\* Lines 49-110: executeCode(maxSteps) from the state p of the page and i of
\* the idle callback; the clock allows k steps.
executeCode(p, i, maxSteps, k) ==
    IF ~p.running
    THEN /\ page' = p
         /\ idle' = i
         /\ browser' = browser
    ELSE IF Len(p.runState) = 0
    THEN /\ page' = [p EXCEPT !.running = FALSE,
                              !.runError =
                                  [set |-> TRUE,
                                   val |-> "a program must have at least one expression"]]
         /\ idle' = i
         /\ browser' = browser
    ELSE batchDone(p, i,
                   batchLoop(p.runState, p.runIP, 0,
                             IF maxSteps = "Infinity" THEN k ELSE 1),
                   maxSteps)

\* Lines 43-46: the browser runs the idle callback.
IdleCallback ==
    /\ browser = "ok"
    /\ idle.pending
    /\ \E k \in 1..MaxBatch :
           executeCode(page, [idle EXCEPT !.id = FALSE, !.pending = FALSE],
                       idle.maxSteps, k)
    /\ UNCHANGED <<program, expressions, ip, pc, ret, last, ev, rx, co, cli>>

\* A parseAndExecuteCode that parses the code again whatever was stored.
parseAndExecuteCodeAfresh(maxSteps, k) ==
    IF page.code.kind = "invalid"
    THEN /\ page' = [page EXCEPT !.running = FALSE,
                                 !.runningCode = page.code,
                                 !.runResult = NoResult,
                                 !.runError = [set |-> TRUE,
                                               val |-> "syntax error"]]
         /\ UNCHANGED <<idle, browser>>
    ELSE /\ page' = [page EXCEPT !.running = TRUE,
                                 !.runningCode = page.code,
                                 !.runState = parseResult(page.code.dict),
                                 !.runIP = 0,
                                 !.runResult = NoResult,
                                 !.runError = NoRunError]
         /\ idle' = requestIdle(idle, maxSteps)
         /\ browser' = browser

\* Lines 134-184: parseAndExecuteCode(maxSteps).
parseAndExecuteCode(maxSteps, k) ==
    IF /\ page.runningCode.kind # "blank"
       /\ page.runningCode = page.code
       /\ ~page.runResult.set
       /\ ~page.runError.set
       /\ ~page.running
    THEN executeCode([page EXCEPT !.running = TRUE], idle, maxSteps, k)
    ELSE IF page.code.kind = "invalid"
    THEN /\ page' = [page EXCEPT !.running = FALSE,
                                 !.runningCode = page.code,
                                 !.runResult = NoResult,
                                 !.runError = [set |-> TRUE,
                                               val |-> "syntax error"]]
         /\ UNCHANGED <<idle, browser>>
    ELSE /\ page' = [page EXCEPT !.running = TRUE,
                                 !.runningCode = page.code,
                                 !.runState = parseResult(page.code.dict),
                                 !.runIP = 0,
                                 !.runResult = NoResult,
                                 !.runError = NoRunError]
         /\ idle' = requestIdle(idle, maxSteps)
         /\ browser' = browser

\* The expression names and bodies of the texts typed into the code pane.
PageNameSet == { <<"a">>, <<"b">> }

PageBodies ==
    { << Num(0) >>,            \* 0     deleted
      << S(<<"a">>) >>,        \* "a"   renamed to a
      << S(<<"b">>) >>,        \* "b"   renamed to b
      << Op("+") >> }          \* +     stack underflow

PageDicts ==
    UNION { [names -> PageBodies] :
              names \in { T \in SUBSET PageNameSet :
                            Cardinality(T) <= MaxProgLen } }

PageCodes == { BlankCode, InvalidCode } \cup { TextCode(d) : d \in PageDicts }

\* Lines 112-114; the textarea is disabled while running (line 244).
handleCodeChange ==
    /\ browser = "ok"
    /\ ~page.running
    /\ \E code \in PageCodes : page' = [page EXCEPT !.code = code]
    /\ UNCHANGED <<program, expressions, ip, pc, ret, last, ev, idle, browser, rx, co, cli>>

\* Lines 116-119; the button is disabled while running (line 266).
handleRunClick ==
    /\ browser = "ok"
    /\ ~page.running
    /\ \E k \in 1..MaxBatch : parseAndExecuteCode("Infinity", k)
    /\ UNCHANGED <<program, expressions, ip, pc, ret, last, ev, rx, co, cli>>

\* A Pause click that leaves the idle callback to run.
handlePauseClickNoCancel ==
    /\ browser = "ok"
    /\ page.running
    /\ idle' = idle
    /\ page' = [page EXCEPT !.running = FALSE]
    /\ UNCHANGED <<program, expressions, ip, pc, ret, last, ev, browser, rx, co, cli>>

\* Lines 121-127; the button is disabled unless running (line 272).  The
\* callback _idleCallbackId names is cancelled; the id itself is kept.
handlePauseClick ==
    /\ browser = "ok"
    /\ page.running
    /\ idle' = [idle EXCEPT !.pending = (idle.pending /\ ~idle.id)]
    /\ page' = [page EXCEPT !.running = FALSE]
    /\ UNCHANGED <<program, expressions, ip, pc, ret, last, ev, browser, rx, co, cli>>

\* Lines 129-132; the button is disabled while running (line 278).
handleStepClick ==
    /\ browser = "ok"
    /\ ~page.running
    /\ parseAndExecuteCode("1", 1)
    /\ UNCHANGED <<program, expressions, ip, pc, ret, last, ev, rx, co, cli>>

InitPage ==
    /\ program = << >>
    /\ expressions = << >>
    /\ ip = 0
    /\ pc = "call"
    /\ ret = NoReturn
    /\ last = NoStep
    /\ ev = NoEval
    /\ page = PageConstructed
    /\ idle = NoIdleCallback
    /\ browser = "ok"
    /\ rx = NoRegexCall
    /\ co = NoConversion
    /\ cli = NoCli

NextPage ==
    \/ handleCodeChange
    \/ handleRunClick
    \/ handlePauseClick
    \/ handleStepClick
    \/ IdleCallback

SpecPage == InitPage /\ [][NextPage]_vars

\* ------------------------------------- runProgram or the debugger
\* Either runProgram is called with a program of at least one expression,
\* or nothing is handed to runProgram and the page is used.

InitEither == Init \/ InitPage

NextEither ==
    \/ Len(program) > 0 /\ Next
    \/ Len(program) = 0 /\ NextPage

SpecEither == InitEither /\ [][NextEither]_vars

\* ------------------------------- runProgram and the debugger, side by side
\* The same program is handed to runProgram and typed into the page, where
\* Run was clicked (lines 175-183).  Each iteration of runProgram's loop is
\* taken together with one idle callback in which executeCode steps once.

InitDrive ==
    /\ \E dict \in Dicts :
          /\ program = parseResult(dict)
          /\ page = [PageConstructed EXCEPT !.code = TextCode(dict),
                                            !.runningCode = TextCode(dict),
                                            !.running = TRUE,
                                            !.runState = parseResult(dict)]
    /\ expressions = program
    /\ ip = 0
    /\ pc = "call"
    /\ ret = NoReturn
    /\ last = NoStep
    /\ ev = NoEval
    /\ idle = requestIdle(NoIdleCallback, "Infinity")
    /\ browser = "ok"
    /\ rx = NoRegexCall
    /\ co = NoConversion
    /\ cli = NoCli

\* runProgram is entered; the page waits for its idle callback.
DriveEnter == Enter

\* One iteration of runProgram's loop and one callback of one step.
DriveStep ==
    /\ pc = "loop"
    /\ loopTest(expressions)
    /\ Evaluated(evaluate(expressions[ip + 1].terms, expressions, ip))
    /\ idle.pending
    /\ executeCode(page, [idle EXCEPT !.id = FALSE, !.pending = FALSE],
                   idle.maxSteps, 1)
    /\ UNCHANGED <<program, ev, rx, co, cli>>

\* runProgram returns, and the callback finds one expression left.
DriveReturn ==
    /\ pc = "loop"
    /\ ~loopTest(expressions)
    /\ pc' = "returned"
    /\ ret' = [val |-> expressions[1].name, error |-> NoError]
    /\ idle.pending
    /\ executeCode(page, [idle EXCEPT !.id = FALSE, !.pending = FALSE],
                   idle.maxSteps, 1)
    /\ UNCHANGED <<program, expressions, ip, last, ev, rx, co, cli>>

NextDrive == DriveEnter \/ DriveStep \/ DriveReturn

SpecDrive == InitDrive /\ [][NextDrive]_vars

\* --------------------------- runProgram and the command line, side by side
\* The array the parser returned is handed to runProgram and to
\* executeSortleProgram; each step of the one is taken with a step of the
\* other.

InitBoth ==
    /\ program \in Programs
    /\ expressions = program
    /\ ip = 0
    /\ pc = "call"
    /\ ret = NoReturn
    /\ last = NoStep
    /\ ev = NoEval
    /\ page = PageConstructed
    /\ idle = NoIdleCallback
    /\ browser = "ok"
    /\ rx = NoRegexCall
    /\ co = NoConversion
    /\ cli = [NoCli EXCEPT !.pc = "call", !.given = program,
                           !.expressions = program]

\* Both are entered (runtime.js 18-26, sortle.js 65-73).
BothEnter ==
    /\ pc = "call"
    /\ IF Len(expressions) = 0
       THEN /\ pc' = "thrown"
            /\ ret' = [val |-> << >>,
                       error |-> SortleRuntimeError(
                                     "program must have at least one expression")]
       ELSE /\ pc' = "loop"
            /\ ret' = ret
    /\ expressions' = expressions
    /\ ip' = 0
    /\ cli' = executeSortleProgram(cli)
    /\ UNCHANGED <<program, last, ev, page, idle, browser, rx, co>>

\* One iteration of runProgram's loop, and the CLI's next step.
BothStep ==
    /\ pc = "loop"
    /\ loopTest(expressions)
    /\ Evaluated(evaluate(expressions[ip + 1].terms, expressions, ip))
    /\ cli' = executeSortleProgram(cli)
    /\ UNCHANGED <<program, ev, page, idle, browser, rx, co>>

\* runProgram returns, and the CLI takes its next step.
BothReturn ==
    /\ pc = "loop"
    /\ ~loopTest(expressions)
    /\ pc' = "returned"
    /\ ret' = [val |-> expressions[1].name, error |-> NoError]
    /\ cli' = executeSortleProgram(cli)
    /\ UNCHANGED <<program, expressions, ip, last, ev, page, idle, browser, rx, co>>

NextBoth == BothEnter \/ BothStep \/ BothReturn

SpecBoth == InitBoth /\ [][NextBoth]_vars

\* ------------------------------------------------- properties: the engine

Names(state) == { state[i].name : i \in 1..Len(state) }

\* The outcome of evaluating the entry ip points at, and the name it gives.
CurrentResult == evaluate(expressions[ip + 1].terms, expressions, ip)

CurrentNewName == sortleString(CurrentResult.val)

\* xs without its entry at index i (counted from 0), the others in order.
IsWithout(ys, xs, i) ==
    /\ Len(ys) = Len(xs) - 1
    /\ \A k \in 1..Len(ys) : ys[k] = IF k <= i THEN xs[k] ELSE xs[k + 1]

\* C1. Sort invariant: in the state the parser produced and after any number
\* of rewrite steps the names are strictly increasing, so no two are equal.
SortInvariant ==
    \A i \in 1..(Len(expressions) - 1) :
        StrLess(expressions[i].name, expressions[i + 1].name)

\* A step has put a renamed entry between two others.
SortInvariantWitness ==
    /\ last.kind = "insert"
    /\ last.name # last.newName
    /\ Len(expressions) = 3
    /\ last.index = 1
    /\ expressions[2].name = last.newName

\* C2. Non-empty names: every entry's name is non-empty in every reachable
\* state, and an evaluation whose result converts to "" (Integer 0, an empty
\* string, a regex search without match) inserts no entry.
NonEmptyNames ==
    /\ [](\A i \in 1..Len(expressions) : expressions[i].name # << >>)
    /\ [][(Step /\ CurrentResult.kind = "value"
                /\ CurrentResult.val \in {Num(0), Str(<< >>)})
             => (/\ Len(expressions') = Len(expressions) - 1
                 /\ Names(expressions') \subseteq Names(expressions))]_vars

\* A regex search without match (`.` against the name "ab") has just deleted
\* the evaluated expression.
NonEmptyNamesWitness ==
    /\ last.kind = "delete"
    /\ last.newName = << >>
    /\ last.name = <<"a">>
    /\ Len(program) = 2
    /\ program[1].terms = << Str(<<".">>), Num(0), Op("?") >>
    /\ program[2].name = <<"a", "b">>
    /\ expressions = << program[2] >>

\* C3. Size invariant: from a program with at least one entry, a step leaves
\* the length unchanged or makes it one less, the length is never 0, and
\* runProgram returns when, and only when, the length is 1.
SizeInvariant ==
    /\ [](Len(program) >= 1 => Len(expressions) >= 1)
    /\ [](pc = "returned" => Len(expressions) = 1)
    /\ []((pc = "loop" /\ Len(expressions) = 1) => (ENABLED Return /\ ~ENABLED Step))
    /\ []((pc = "loop" /\ Len(expressions) # 1) => ~ENABLED Return)
    /\ [][Len(expressions') \in {Len(expressions), Len(expressions) - 1}]_vars

\* A clobber has brought a three-entry program down to one entry, returned.
SizeInvariantWitness ==
    /\ pc = "returned"
    /\ Len(program) = 3
    /\ Len(expressions) = 1
    /\ last.kind = "clobber"

\* C4. Instruction pointer range: at every loop test 0 <= ip < length.
IpInRange == pc = "loop" => (0 <= ip /\ ip < Len(expressions))

\* An insertion at the end of a three-entry state has wrapped ip to 0.
IpInRangeWitness ==
    /\ pc = "loop"
    /\ last.kind = "insert"
    /\ Len(expressions) = 3
    /\ last.index = 2
    /\ ip = 0

\* C5. Clobber path: when the new name is the name of another entry, the
\* state is one shorter after the step, holds exactly one entry of that name,
\* and that entry has the evaluated expression's body.
ClobberPath ==
    [][(/\ Step
        /\ CurrentResult.kind = "value"
        /\ \E k \in 1..Len(expressions) :
              k # ip + 1 /\ expressions[k].name = CurrentNewName)
         => (/\ Len(expressions') = Len(expressions) - 1
             /\ Cardinality({k \in 1..Len(expressions') :
                                expressions'[k].name = CurrentNewName}) = 1
             /\ \A k \in 1..Len(expressions') :
                   expressions'[k].name = CurrentNewName
                       => expressions'[k].terms = expressions[ip + 1].terms)]_vars

\* The entry "a" has taken the name, and the place, of the entry "b", whose
\* body was a different one.
ClobberPathWitness ==
    /\ last.kind = "clobber"
    /\ last.name = <<"a">>
    /\ last.newName = <<"b">>
    /\ \E i, j \in 1..Len(program) :
          /\ program[i].name = <<"a">>
          /\ program[j].name = <<"b">>
          /\ program[i].terms # program[j].terms
          /\ \E k \in 1..Len(expressions) :
                expressions[k] = [name |-> <<"b">>, terms |-> program[i].terms]

\* C6. Deletion path: when the result is Integer 0 or the empty string, the
\* state after the step is the state before it without the evaluated entry.
DeletionPath ==
    [][(/\ Step
        /\ CurrentResult.kind = "value"
        /\ CurrentResult.val \in {Num(0), Str(<< >>)})
         => IsWithout(expressions', expressions, ip)]_vars

\* The body `0` has deleted the middle entry of a three-entry program.
DeletionPathWitness ==
    /\ last.kind = "delete"
    /\ last.ip = 1
    /\ Len(program) = 3
    /\ program[2].terms = << Num(0) >>
    /\ expressions = << program[1], program[3] >>

\* C7. A program of exactly one expression: runProgram returns the
\* expression's original name and evaluates nothing, whatever the body.
OneExpressionProgram ==
    Len(program) = 1
        => /\ last = NoStep
           /\ pc \in {"call", "loop", "returned"}
           /\ expressions = program
           /\ pc = "returned" => ret = [val |-> program[1].name, error |-> NoError]

\* runProgram has returned "a" for the program `a := +`, whose body fails
\* when evaluated.
OneExpressionProgramWitness ==
    /\ pc = "returned"
    /\ program = << [name |-> <<"a">>, terms |-> << Op("+") >>] >>
    /\ ret.val = <<"a">>

\* ---------------------------------------------- properties: the evaluator

\* A body `x y /` or `x y %` of two literals.
IsDivisionBody(terms) ==
    /\ Len(terms) = 3
    /\ ~(terms[1].type = "operator") /\ ~(terms[2].type = "operator")
    /\ terms[3] \in {Op("/"), Op("%")}

\* C9. Operand convention: `x y /` is floor(to-integer(x) / to-integer(y))
\* and `x y %` is to-integer(x) mod to-integer(y), for a divisor other than 0.
DivisionOperandOrder ==
    (/\ ev.pc = "done"
     /\ IsDivisionBody(ev.terms)
     /\ sortleNumber(ev.terms[2]).num # 0)
        => ev.result =
              Value(Num(IF ev.terms[3] = Op("/")
                        THEN sortleNumber(ev.terms[1]).num
                                 \div sortleNumber(ev.terms[2]).num
                        ELSE sortleNumber(ev.terms[1]).num
                                 % sortleNumber(ev.terms[2]).num))

\* C10. Division by zero: a step that evaluates `x y /` or `x y %` with
\* to-integer(y) = 0 throws, and leaves the state as it was.
DivideByZeroThrows ==
    [][(/\ Step
        /\ IsDivisionBody(expressions[ip + 1].terms)
        /\ sortleNumber(expressions[ip + 1].terms[2]) = Num(0))
         => (pc' = "thrown" /\ expressions' = expressions)]_vars

\* ----------------------------------------------- properties: the debugger

\* C8. The empty program: when the debugger's driver runs on a state of zero
\* expressions it stops with the error "program must have at least one
\* expression" and reports no result.
EmptyProgramRejected ==
    [][(/\ IdleCallback
        /\ page.running
        /\ Len(page.runState) = 0)
         => (/\ ~page'.running
             /\ ~page'.runResult.set
             /\ page'.runError =
                    [set |-> TRUE,
                     val |-> "program must have at least one expression"])]_vars

\* ------------------------------------------ properties: the regex search

\* The candidate names in the order state[at-1], ..., state[0],
\* state[len-1], ..., state[at+1], indices counted from 0.
CandidateOrder(state, at) ==
    [k \in 1..(Len(state) - 1) |->
        IF k <= at THEN state[at - k + 1].name
        ELSE state[Len(state) - (k - at) + 1].name]

\* Whether the pattern, which compiles, matches the name.
PatternMatches(regex, name) ==
    matchCompiledRegex(compileRegex(regex).val, name).kind = "match"

\* The match value of the first of the names the pattern matches, "" if it
\* matches none.
FirstMatchValue(regex, names) ==
    IF \E i \in 1..Len(names) : PatternMatches(regex, names[i])
    THEN matchCompiledRegex(
             compileRegex(regex).val,
             names[CHOOSE i \in 1..Len(names) :
                       /\ PatternMatches(regex, names[i])
                       /\ \A k \in 1..(i - 1) : ~PatternMatches(regex, names[k])]).match
    ELSE << >>

\* A body `"pattern" 0 ?` whose pattern compiles.
IsSearchBody(terms) ==
    /\ Len(terms) = 3
    /\ terms[1].type = "string"
    /\ terms[2] = Num(0)
    /\ terms[3] = Op("?")
    /\ compileRegex(terms[1].str).kind = "value"

\* C11. Regex search order: a step that evaluates `"pattern" 0 ?` at index ip
\* tries the names state[ip-1], ..., state[0], state[len-1], ..., state[ip+1];
\* its result is the match value of the first of them the pattern matches,
\* and the empty string when it matches none.
SearchOrder ==
    [][(Step /\ IsSearchBody(expressions[ip + 1].terms))
         => (/\ CurrentResult =
                    Value(Str(FirstMatchValue(expressions[ip + 1].terms[1].str,
                                              CandidateOrder(expressions, ip))))
             /\ last'.newName =
                    FirstMatchValue(expressions[ip + 1].terms[1].str,
                                    CandidateOrder(expressions, ip)))]_vars

\* The middle entry of three evaluated `"." 0 ?` with a one-letter name on
\* either side, and took the name before it, "3", not the name after it.
SearchOrderWitness ==
    /\ Len(program) = 3
    /\ program[2].terms = << Str(<<".">>), Num(0), Op("?") >>
    /\ Len(program[3].name) = 1
    /\ last.ip = 1
    /\ last.name = program[2].name
    /\ last.newName = <<"3">>

\* ----------------------------------------- properties: the regex matcher

\* The pattern language read by itself, on a compiled pattern: k repetitions
\* of chars take up str from position pos (counted from 0) on.
RepeatsAt(chars, k, str, pos) ==
    /\ pos + Len(chars) * k <= Len(str)
    /\ \A r \in 0..(k - 1) : \A i \in 1..Len(chars) :
          chars[i] = "." \/ chars[i] = str[pos + r * Len(chars) + i]

\* The repetition counts an element allows when `room` characters are left:
\* one or more for `!`, zero or one for `@`, exactly one otherwise.
Counts(el, room) ==
    IF el.canRepeat
    THEN 1..(IF Len(el.chars) = 0 THEN 1 ELSE room \div Len(el.chars))
    ELSE IF el.optional THEN {0, 1}
    ELSE {1}

Fail == << -1 >>

RECURSIVE Lazy(_, _, _, _)

\* The least of the counts, followed by the lazy counts of the elements after.
LazyPick(good, elements, i, str, pos) ==
    IF good = {} THEN Fail
    ELSE << CHOOSE k \in good : \A j \in good : k <= j >>
           \o Lazy(elements, i + 1, str,
                   pos + Len(elements[i].chars)
                           * (CHOOSE k \in good : \A j \in good : k <= j))

\* The repetition counts of the elements from the i-th on under lazy
\* matching of str from pos on: each element takes the least count for which
\* the elements after it can take up the rest.  Fail if there are none.
Lazy(elements, i, str, pos) ==
    IF i > Len(elements) THEN (IF pos = Len(str) THEN << >> ELSE Fail)
    ELSE LazyPick({ k \in Counts(elements[i], Len(str) - pos) :
                      /\ RepeatsAt(elements[i].chars, k, str, pos)
                      /\ Lazy(elements, i + 1, str,
                              pos + Len(elements[i].chars) * k) # Fail },
                  elements, i, str, pos)

RECURSIVE Consumed(_, _, _)

\* The number of characters the first i elements take up under the counts.
Consumed(elements, counts, i) ==
    IF i = 0 THEN 0
    ELSE Consumed(elements, counts, i - 1) + Len(elements[i].chars) * counts[i]

HasCapture(elements) == \E i \in 1..Len(elements) : elements[i].capturing

CaptureIndex(elements) == CHOOSE i \in 1..Len(elements) : elements[i].capturing

\* What a match under the counts is worth: the part of str the capturing
\* element took up, or all of str when no element captures.
ValueUnder(elements, counts, str) ==
    IF HasCapture(elements)
    THEN SubSeq(str,
                Consumed(elements, counts, CaptureIndex(elements) - 1) + 1,
                Consumed(elements, counts, CaptureIndex(elements)))
    ELSE str

OnlyOptional(elements) ==
    /\ \E i \in 1..Len(elements) : elements[i].optional
    /\ \A i \in 1..Len(elements) : ~elements[i].canRepeat

\* C12. Zero-or-one: a pattern whose quantified elements all carry `@`
\* accepts every target made of its elements in order with each `@` element
\* absent or present exactly once.
OptionalAcceptsBoth ==
    (/\ rx.pc = "done"
     /\ OnlyOptional(rx.compiled.val)
     /\ Lazy(rx.compiled.val, 1, rx.str, 0) # Fail)
        => rx.result.kind = "match"

Quantified(el) == el.optional \/ el.canRepeat

\* The first element that carries a modifier.
FirstQuantified(elements) ==
    CHOOSE q \in 1..Len(elements) :
        /\ Quantified(elements[q])
        /\ \A j \in 1..(q - 1) : ~Quantified(elements[j])

Ones(elements) == [j \in 1..Len(elements) |-> 1]

\* The elements before the q-th, none quantified, take up the start of str.
PrefixFits(elements, q, str) ==
    \A i \in 1..(q - 1) :
        RepeatsAt(elements[i].chars, 1, str,
                  Consumed(elements, Ones(elements), i - 1))

\* What the matcher says of the elements after the q-th against the rest of
\* str, when the q-th took k repetitions.
RestOutcome(elements, q, str, k) ==
    matchCompiledRegexRecursive(
        SubSeq(elements, q + 1, Len(elements)),
        SubstrFrom(str, Consumed(elements, Ones(elements), q - 1)
                          + Len(elements[q].chars) * k))

\* The counts k >= 1 of the q-th element for which the rest of the pattern
\* matches the rest of the target.
Enough(elements, q, str) ==
    { k \in 1..(Len(str) + 1) :
        /\ RepeatsAt(elements[q].chars, k, str,
                     Consumed(elements, Ones(elements), q - 1))
        /\ RestOutcome(elements, q, str, k).kind = "match" }

Least(counts) == CHOOSE k \in counts : \A j \in counts : k <= j

\* For every smaller count the rest of the pattern was found not to match.
Definite(elements, q, str, k) ==
    \A j \in 1..(k - 1) : RestOutcome(elements, q, str, j).kind = "nomatch"

\* The value of the match when the q-th element takes k repetitions.
ValueAt(elements, q, str, k) ==
    IF RestOutcome(elements, q, str, k).capturingGroup
    THEN RestOutcome(elements, q, str, k).match
    ELSE ValueUnder(elements,
                    [j \in 1..Len(elements) |-> IF j = q THEN k ELSE 1],
                    str)

\* Every quantified element carries `!` and has at least one character.
OnlyRepeating(elements) ==
    /\ \E i \in 1..Len(elements) : elements[i].canRepeat
    /\ \A i \in 1..Len(elements) :
          /\ ~elements[i].optional
          /\ elements[i].canRepeat => Len(elements[i].chars) > 0

RECURSIVE Fits(_, _, _, _, _, _)

\* The elements from the i-th on can take up str from pos to its end, each
\* with a count it allows, the c-th taking up exactly `piece`.
Fits(elements, i, str, pos, c, piece) ==
    IF i > Len(elements) THEN pos = Len(str)
    ELSE \E k \in Counts(elements[i], Len(str) - pos) :
            /\ RepeatsAt(elements[i].chars, k, str, pos)
            /\ i = c => piece = SubSeq(str, pos + 1,
                                       pos + Len(elements[i].chars) * k)
            /\ Fits(elements, i + 1, str, pos + Len(elements[i].chars) * k,
                    c, piece)

NoOptional(elements) == \A i \in 1..Len(elements) : ~elements[i].optional

\* C14. Match result: when a compiled pattern matches a target, the value is
\* the whole target if no element captures, and otherwise the part of the
\* target that the capturing element took up, all its repetitions included:
\* the elements take up the target from end to end with the capturing one on
\* exactly the value, and where no element is optional that is its part
\* under the lazy counts.
MatchValue ==
    (rx.pc = "done" /\ rx.result.kind = "match") =>
        IF HasCapture(rx.compiled.val)
        THEN /\ rx.result.capturingGroup
             /\ Fits(rx.compiled.val, 1, rx.str, 0,
                     CaptureIndex(rx.compiled.val), rx.result.match)
             /\ NoOptional(rx.compiled.val)
                  => rx.result.match =
                         ValueUnder(rx.compiled.val,
                                    Lazy(rx.compiled.val, 1, rx.str, 0),
                                    rx.str)
        ELSE /\ ~rx.result.capturingGroup
             /\ rx.result.match = rx.str

\* `a!(a)` against `aab` fails and against `aaa` matches: the group stands
\* after an element repeated twice, and the last `a` is the value.
MatchValueWitness ==
    /\ rx.pc = "done"
    /\ rx.regex = <<"a", "!", "(", "a", ")">>
    /\ rx.str = <<"a", "a", "a">>
    /\ rx.result.kind = "match"
    /\ rx.result.capturingGroup
    /\ rx.result.match = <<"a">>

\* ------------------------------------ properties: the regex compiler

RECURSIVE Malformed(_, _, _, _)

\* Reading the pattern from its i-th character on, with the group `open`
\* ("" for none) and `seen` telling whether a ( group was opened before:
\* a group is opened inside a group, a second ( group is opened, or the
\* pattern ends inside a group.
Malformed(regex, i, open, seen) ==
    IF i > Len(regex) THEN open # ""
    ELSE IF regex[i] = "[" \/ regex[i] = "("
    THEN \/ open # ""
         \/ regex[i] = "(" /\ seen
         \/ Malformed(regex, i + 1, regex[i], seen \/ regex[i] = "(")
    ELSE IF (open = "[" /\ regex[i] = "]") \/ (open = "(" /\ regex[i] = ")")
    THEN Malformed(regex, i + 1, "", seen)
    ELSE Malformed(regex, i + 1, open, seen)

\* The body  "regex" 0 ?  evaluated as the last of the entries named `names`
\* and itself.
SearchAmong(regex, names) ==
    evaluate(<< Str(regex), Num(0), Op("?") >>,
             [i \in 1..(Len(names) + 1) |->
                 [name |-> IF i <= Len(names) THEN names[i] ELSE <<"z">>,
                  terms |-> << Num(0) >>]],
             Len(names))

\* C15. Regex compile errors: compiling a pattern fails, with a regex compile
\* error, exactly when the pattern opens `[` or `(` inside a group, opens a
\* second `(` group, or ends with a group open; evaluating `?` with such a
\* pattern fails with that error whatever the candidate names are.
CompileErrors ==
    rx.pc # "call" =>
        /\ rx.pc = "thrown" <=> Malformed(rx.regex, 1, "", FALSE)
        /\ rx.pc = "thrown" =>
              /\ rx.compiled.error.name = "SortleRegexError"
              /\ \A names \in {<< >>, << rx.str >>, << rx.str, rx.regex >>} :
                    SearchAmong(rx.regex, names) = Throw(rx.compiled.error)
        /\ rx.pc # "thrown" =>
              SearchAmong(rx.regex, << >>) = Value(Str(<< >>))

\* `(a)(`: the second ( group is refused, although the target is there.
CompileErrorsWitness ==
    /\ rx.pc = "thrown"
    /\ rx.regex = <<"(", "a", ")", "(">>
    /\ rx.str = <<"a">>
    /\ rx.compiled.error = SortleRegexError("cannot use multiple () groups")

\* ------------------------------------------ properties: the coercions

\* C16 as first stated. Coercion round trip: the number of the string of n
\* is n for every integer n, the negative ones included.
RoundTripEveryInteger ==
    co.pc = "done" => co.back = Num(co.n)

\* C16. Coercion round trip: the number of the string of n is n for every
\* integer n >= 0, zero going through the empty string; the string of a
\* negative n starts with `-`, which is no digit, and its number is 0.
RoundTrip ==
    co.pc = "done" =>
        /\ co.n >= 0 => co.back = Num(co.n)
        /\ co.n = 0 => co.str = << >>
        /\ co.n < 0 => (Head(co.str) = "-" /\ co.back = Num(0))

\* 120 goes through the string `120`.
RoundTripWitness ==
    /\ co.pc = "done"
    /\ co.n = 120
    /\ co.str = <<"1", "2", "0">>
    /\ co.back = Num(120)

\* -------------------------------------- properties: the single step

\* C17. The single step is drivable from outside: for every program, calling
\* stepThroughProgram from ip 0 on until one entry is left, as executeCode
\* does, goes through the states and ips runProgram goes through, and ends
\* with the name runProgram returns.
DrivenLikeRun ==
    /\ pc \in {"call", "loop"} =>
          /\ page.running /\ idle.pending
          /\ page.runState = expressions
          /\ page.runIP = ip
    /\ pc = "returned" =>
          /\ ~page.running /\ ~idle.pending
          /\ page.runState = expressions
          /\ page.runIP = ip
          /\ page.runResult = [set |-> TRUE, val |-> ret.val]
          /\ ~page.runError.set

\* Three expressions were run down to one, by steps that deleted and steps
\* that renamed.
DrivenLikeRunWitness ==
    /\ pc = "returned"
    /\ Len(program) = 3
    /\ last.kind = "clobber"
    /\ page.runResult.set
    /\ page.runResult.val = expressions[1].name
    /\ page.runIP = 0

\* ------------------------------------------ properties: errors

\* The idle callback or the click runs a batch of executeCode whose first
\* step is the evaluation of runState[runIP].
BatchStarts ==
    /\ Len(program) = 0
    /\ Len(page.runState) > 1
    /\ \/ page.running /\ idle.pending /\ (idle'.pending \/ ~idle'.id)
       \/ ~page.running /\ page'.runningCode = page.runningCode
            /\ page.runningCode = page.code /\ ~page.runResult.set
            /\ ~page.runError.set /\ page.runningCode.kind # "blank"
            /\ page'.code = page.code /\ page' # page

\* C18. Errors abort the step without mutation: when the evaluation of the
\* selected expression raises an error, runProgram throws that error with
\* expressions and ip as they were before the step; in the debugger, a batch
\* that ends in an error shows the error's message and leaves the stored
\* runState and runIP as they were before the batch.
ErrorsLeaveState ==
    [][/\ (/\ Len(program) > 0 /\ pc = "loop" /\ loopTest(expressions)
           /\ CurrentResult.kind = "throw")
          => /\ pc' = "thrown"
             /\ ret'.error = CurrentResult.error
             /\ expressions' = expressions
             /\ ip' = ip
       /\ (page'.runError.set /\ page'.runError # page.runError)
          => /\ page'.runState = page.runState
             /\ page'.runIP = page.runIP
             /\ ~page'.running
       /\ (/\ BatchStarts
           /\ evaluate(page.runState[page.runIP + 1].terms, page.runState,
                       page.runIP).kind = "throw")
          => page'.runError =
                 [set |-> TRUE,
                  val |-> evaluate(page.runState[page.runIP + 1].terms,
                                   page.runState, page.runIP).error.message]
      ]_vars

\* runProgram has thrown the regex compile error of an expression it came
\* to after other steps, and expressions and ip are where they were.
ErrorsLeaveStateWitness ==
    /\ pc = "thrown"
    /\ ret.error = SortleRegexError("unclosed (")
    /\ last.kind = "throw"
    /\ ip > 0 /\ last.ip = ip
    /\ expressions # program
    /\ expressions[ip + 1].terms = << S(<<"(">>), Num(0), Op("?") >>

\* ----------------------------------- properties: the stack discipline

NoFault == [kind |-> "none", operator |-> "", depth |-> 1]

RECURSIVE StackFault(_, _, _)

\* Reading the terms from the i-th on with `depth` values on the stack, a
\* literal adding one and an operator taking two and giving one: the first
\* operator that finds fewer than two values, or else a depth other than one
\* at the end, or no fault.
StackFault(terms, i, depth) ==
    IF i > Len(terms)
    THEN IF depth # 1
         THEN [kind |-> "residue", operator |-> "", depth |-> depth]
         ELSE NoFault
    ELSE IF terms[i].type = "operator"
    THEN IF depth < 2
         THEN [kind |-> "underflow", operator |-> terms[i].str[1], depth |-> depth]
         ELSE StackFault(terms, i + 1, depth - 1)
    ELSE StackFault(terms, i + 1, depth + 1)

\* No term is the operator ?, the one operator that fails by itself.
NoSearch(terms) == \A i \in 1..Len(terms) : terms[i] # Op("?")

\* C19. Stack discipline: the terms are processed from left to right; an
\* operator that finds fewer than two values on the stack fails with the
\* stack-underflow error, a body that ends with a stack of another size than
\* one, the empty body included, fails with the stack-residue error, and
\* otherwise the evaluation gives a value, which for a body of one literal
\* is that literal.
StackDiscipline ==
    (ev.pc = "done" /\ NoSearch(ev.terms)) =>
        /\ StackFault(ev.terms, 1, 0).kind = "underflow"
             => ev.result =
                    Throw(SortleRuntimeError(
                        "cannot execute " \o StackFault(ev.terms, 1, 0).operator
                            \o ": need 2 elements on stack, have "
                            \o ToString(StackFault(ev.terms, 1, 0).depth)))
        /\ StackFault(ev.terms, 1, 0).kind = "residue"
             => ev.result =
                    Throw(SortleRuntimeError(
                        "stack must end with exactly 1 value, but ended with "
                            \o ToString(StackFault(ev.terms, 1, 0).depth)))
        /\ StackFault(ev.terms, 1, 0) = NoFault
             => /\ ev.result.kind = "value"
                /\ Len(ev.terms) = 1 => ev.result.val = ev.terms[1]

\* `1 "b" + ~`: the + finds two values, the ~ that follows finds one.
StackDisciplineWitness ==
    /\ ev.pc = "done"
    /\ ev.terms = << Num(1), Str(<<"b">>), Op("+"), Op("~") >>
    /\ ev.result =
           Throw(SortleRuntimeError(
               "cannot execute ~: need 2 elements on stack, have 1"))

\* ------------------------------- properties: the instruction pointer

\* ip is just after the entry at index j (counted from 0), or 0 if that
\* entry is the last.
JustAfter(nextIP, j, state) ==
    nextIP = IF j + 1 = Len(state) THEN 0 ELSE j + 1

\* C20. Instruction-pointer update: after a step that inserts or clobbers at
\* index j the next ip is j + 1, wrapped to 0 at the new length; after a
\* step that deletes the evaluated expression the next ip is the old ip,
\* which now addresses the former successor, wrapped to 0 at the new length.
\* An expression that evaluates to its own name advances ip by one.
IpUpdate ==
    [][(Step /\ CurrentResult.kind = "value")
         => /\ CurrentNewName = << >>
                 => /\ Len(expressions') = Len(expressions) - 1
                    /\ ip' = IF ip = Len(expressions') THEN 0 ELSE ip
                    /\ ip < Len(expressions')
                         => expressions'[ip' + 1] = expressions[ip + 2]
            /\ CurrentNewName # << >>
                 => \E j \in 0..(Len(expressions') - 1) :
                       /\ expressions'[j + 1] =
                              [name |-> CurrentNewName,
                               terms |-> expressions[ip + 1].terms]
                       /\ JustAfter(ip', j, expressions')
            /\ CurrentNewName = expressions[ip + 1].name
                 => /\ expressions' = expressions
                    /\ ip' = (ip + 1) % Len(expressions)]_vars

\* The last of three expressions has taken the name of the second; ip went
\* past the end of the two that are left and is 0 again.
IpUpdateWitness ==
    /\ pc = "loop"
    /\ Len(program) = 3
    /\ last.kind = "clobber"
    /\ last.ip = 2
    /\ last.index = 1
    /\ Len(expressions) = 2
    /\ ip = 0

\* ------------------------------------- properties: groups and modifiers

IsGrouped(el) == el.grouped

\* The characters of the grouped elements, in order.
GroupedChars(elements) ==
    [i \in 1..Len(SelectSeq(elements, IsGrouped)) |->
        SelectSeq(elements, IsGrouped)[i].chars]

Closer(chr) == IF chr = "[" THEN "]" ELSE ")"

RECURSIVE GroupContents(_, _, _, _)

\* What stands between the delimiters of each group of the pattern, reading
\* it from the i-th character on inside the group `open` ("" for none) whose
\* content so far is cur.
GroupContents(regex, i, open, cur) ==
    IF i > Len(regex) THEN << >>
    ELSE IF open = ""
    THEN GroupContents(regex, i + 1,
                       IF regex[i] = "[" \/ regex[i] = "(" THEN regex[i] ELSE "",
                       << >>)
    ELSE IF regex[i] = Closer(open)
    THEN << cur >> \o GroupContents(regex, i + 1, "", << >>)
    ELSE GroupContents(regex, i + 1, open, Append(cur, regex[i]))

\* The group opened at the k-th character closes at the m-th.
ClosesAt(regex, k, m) ==
    /\ m > k
    /\ regex[m] = Closer(regex[k])
    /\ \A n \in (k + 1)..(m - 1) : regex[n] # Closer(regex[k])

\* C21. Group contents: a group `[...]` or `(...)` compiles to one element
\* whose characters are exactly those between its delimiters, `!` and `@`
\* included, and the characters inside a group leave the elements compiled
\* before the group as they were.
GroupContentsKept ==
    rx.pc \in {"compiled", "done"} =>
        /\ GroupedChars(rx.compiled.val) = GroupContents(rx.regex, 1, "", << >>)
        /\ \A k \in 1..Len(rx.regex) : \A m \in 1..Len(rx.regex) :
              (/\ rx.regex[k] \in {"[", "("}
               /\ compileRegex(SubSeq(rx.regex, 1, k - 1)).kind = "value"
               /\ ClosesAt(rx.regex, k, m))
                 => compileRegex(SubSeq(rx.regex, 1, m)).val =
                        compileRegex(SubSeq(rx.regex, 1, k - 1)).val
                          \o << Element(SubSeq(rx.regex, k + 1, m - 1),
                                        rx.regex[k] = "(", TRUE) >>

\* The element el quantified by the modifier.
QuantifiedBy(el, modifier) ==
    [el EXCEPT !.optional = (modifier = "@"), !.canRepeat = (modifier = "!")]

IsModifier(chr) == chr = "!" \/ chr = "@"

\* Only characters that are neither delimiters nor modifiers.
IsLiteralRun(chars) ==
    \A i \in 1..Len(chars) : chars[i] \notin {"[", "]", "(", ")", "!", "@"}

\* What a modifier after the elements `before` compiles to.
Modified(before, modifier) ==
    IF ~before[Len(before)].grouped /\ Len(before[Len(before)].chars) > 1
    THEN AllButLast(before)
           \o << Element(AllButLast(before[Len(before)].chars), FALSE, FALSE),
                 QuantifiedBy(Element(LastChar(before[Len(before)].chars),
                                      FALSE, FALSE),
                              modifier) >>
    ELSE AllButLast(before)
           \o << QuantifiedBy(before[Len(before)], modifier) >>

\* C22. Modifier scope: a `!` or `@` after an ungrouped literal run of
\* n > 1 characters compiles to a plain element of the first n - 1
\* characters followed by a quantified element of the last character; after
\* a grouped element it quantifies the whole group; and no element of a
\* compiled pattern is both optional and repeatable.
ModifierScope ==
    rx.pc \in {"compiled", "done"} =>
        /\ \A i \in 1..Len(rx.compiled.val) :
              ~(rx.compiled.val[i].optional /\ rx.compiled.val[i].canRepeat)
        /\ \A k \in 2..Len(rx.regex) :
              (/\ IsModifier(rx.regex[k])
               /\ compileRegex(SubSeq(rx.regex, 1, k - 1)).kind = "value"
               /\ compileRegex(SubSeq(rx.regex, 1, k - 1)).val # << >>)
                 => compileRegex(SubSeq(rx.regex, 1, k)).val =
                        Modified(compileRegex(SubSeq(rx.regex, 1, k - 1)).val,
                                 rx.regex[k])
        /\ (/\ Len(rx.regex) > 2
            /\ IsModifier(rx.regex[Len(rx.regex)])
            /\ IsLiteralRun(AllButLast(rx.regex)))
             => rx.compiled.val =
                    << Element(SubSeq(rx.regex, 1, Len(rx.regex) - 2),
                               FALSE, FALSE),
                       QuantifiedBy(Element(<< rx.regex[Len(rx.regex) - 1] >>,
                                            FALSE, FALSE),
                                    rx.regex[Len(rx.regex)]) >>
        /\ (/\ Len(rx.regex) > 2
            /\ IsModifier(rx.regex[Len(rx.regex)])
            /\ rx.regex[1] \in {"[", "("}
            /\ ClosesAt(rx.regex, 1, Len(rx.regex) - 1)
            /\ IsLiteralRun(SubSeq(rx.regex, 2, Len(rx.regex) - 2)))
             => rx.compiled.val =
                    << QuantifiedBy(Element(SubSeq(rx.regex, 2, Len(rx.regex) - 2),
                                            rx.regex[1] = "(", TRUE),
                                    rx.regex[Len(rx.regex)]) >>

\* `a.!`: the literal `a.` is split, and only the `.` is repeatable.
ModifierScopeWitness ==
    /\ rx.pc = "compiled"
    /\ rx.regex = <<"a", ".", "!">>
    /\ Len(rx.compiled.val) = 2
    /\ rx.compiled.val[1] = Element(<<"a">>, FALSE, FALSE)
    /\ rx.compiled.val[2].chars = <<".">>
    /\ rx.compiled.val[2].canRepeat

\* ------------------------------------ properties: the matcher returns

\* C23. Matcher termination: for every pattern that compiles, empty groups
\* such as `[]!` and `()!` included, and every target, the matcher returns
\* a match or no match: the count of a `!` element stops growing once the
\* element cannot match another repetition.
MatcherTerminates ==
    rx.pc = "done" => rx.result.kind \in {"match", "nomatch"}

\* ------------------------------------- properties: the frame of a step

\* The entries other than the evaluated one, in their order.
Others == [i \in 1..(Len(expressions) - 1) |->
              IF i <= ip THEN expressions[i] ELSE expressions[i + 1]]

\* The evaluated body under its new name.
Renamed == [name |-> CurrentNewName, terms |-> expressions[ip + 1].terms]

\* state is xs with x put in before its j-th entry.
PutIn(state, xs, x, j) ==
    /\ Len(state) = Len(xs) + 1
    /\ \A i \in 1..Len(state) :
          state[i] = IF i < j THEN xs[i] ELSE IF i = j THEN x ELSE xs[i - 1]

\* state is xs with x in the place of its j-th entry, which had x's name.
PutOver(state, xs, x, j) ==
    /\ Len(state) = Len(xs)
    /\ xs[j].name = x.name
    /\ \A i \in 1..Len(state) : state[i] = IF i = j THEN x ELSE xs[i]

\* C24 as first stated. Frame of a step: the step removes the evaluated
\* entry and inserts at most one entry, the evaluated body under its new
\* name; every other entry stays, with its name, its body and its place
\* among the others.
FrameNothingElseRemoved ==
    [][(Step /\ CurrentResult.kind = "value")
         => \/ expressions' = Others
            \/ \E j \in 1..Len(expressions') :
                  PutIn(expressions', Others, Renamed, j)]_vars

\* C24. Frame of a step: the step removes the evaluated entry and, unless
\* the new name is empty, puts in one entry, the evaluated body under its
\* new name; an entry that already has that name is replaced by it, and
\* every other entry stays, with its name, its body and its place among the
\* others.
FrameOfAStep ==
    [][(Step /\ CurrentResult.kind = "value")
         => IF CurrentNewName = << >>
            THEN expressions' = Others
            ELSE IF \E j \in 1..Len(Others) : Others[j].name = CurrentNewName
            THEN \E j \in 1..Len(Others) :
                    PutOver(expressions', Others, Renamed, j)
            ELSE \E j \in 1..Len(expressions') :
                    PutIn(expressions', Others, Renamed, j)]_vars

\* The first of three expressions took the name of the second and its
\* place; the third is where it was.
FrameOfAStepWitness ==
    /\ pc = "loop"
    /\ Len(program) = 3
    /\ last.kind = "clobber"
    /\ last.ip = 0
    /\ last.index = 0
    /\ Len(expressions) = 2
    /\ expressions[1] = [name |-> program[2].name, terms |-> program[1].terms]
    /\ expressions[2] = program[3]

\* ------------------------------------------ properties: the debugger

\* C25. Debugger pause: however the Run, Step and Pause clicks and the idle
\* callbacks follow one another, at most one idle callback is pending, the
\* one _idleCallbackId names, and only while the page is running; while the
\* page is not running, as after a Pause click, runState and runIP change
\* by a Run or a Step click only.
PauseHolds ==
    /\ [](/\ idle.stray = 0
          /\ idle.pending => (idle.id /\ page.running))
    /\ [][(/\ ~page.running
           /\ <<page.runState, page.runIP>>' # <<page.runState, page.runIP>>)
            => (handleRunClick \/ handleStepClick)]_vars

\* Pause was clicked while a callback was pending, after a step had been
\* taken: the callback is cancelled and the step's state and ip are stored.
PauseHoldsWitness ==
    /\ ~page.running
    /\ idle.id /\ ~idle.pending
    /\ page.runningCode = page.code
    /\ ~page.runResult.set /\ ~page.runError.set
    /\ Len(page.runState) = 2
    /\ page.runIP = 1

\* The page holds a paused execution of the code in the pane (lines 135-141).
Paused ==
    /\ page.runningCode.kind # "blank"
    /\ page.runningCode = page.code
    /\ ~page.runResult.set
    /\ ~page.runError.set
    /\ ~page.running

\* The evaluation of the expression the stored runIP selects.
PageResult ==
    evaluate(page.runState[page.runIP + 1].terms, page.runState, page.runIP)

\* One iteration of runProgram's loop on the stored state and ip.
PageRewrite ==
    rewrite(page.runState, page.runIP, sortleString(PageResult.val))

\* The page after exactly one step from the stored state, paused.
SteppedOnce ==
    /\ page'.runState = PageRewrite.expressions
    /\ page'.runIP = PageRewrite.ip
    /\ page'.runningCode = page.runningCode
    /\ ~page'.running
    /\ ~page'.runResult.set
    /\ ~page'.runError.set
    /\ ~idle'.pending

CopiesAgree ==
    /\ cli.expressions = expressions
    /\ cli.ip = ip
    /\ (pc = "call") <=> (cli.pc = "call")
    /\ (pc = "loop") <=> (cli.pc = "loop")
    /\ (pc = "returned") <=> (cli.pc = "returned")
    /\ (pc = "returned") => (cli.out = ret.val)
    /\ (pc = "thrown") <=> (cli.pc \in {"exited", "thrown"})
    /\ (pc = "hung") <=> (cli.pc = "hung")
    /\ cli.given = program

\* A program of three expressions ran to one name through a step that wrote
\* over an entry, and the CLI printed the name runProgram returned.
CopiesAgreeWitness ==
    /\ Len(program) = 3
    /\ pc = "returned"
    /\ cli.pc = "returned"
    /\ last.kind = "clobber"
    /\ cli.out = ret.val
    /\ cli.expressions # cli.given

====
